---- MODULE Spec2Model ----
(***************************************************************************)
(* ChainPlusTrader: the bot scheduler (server/botScheduler), the trade     *)
(* journal (server/storage), the request handlers (server/routes) and the  *)
(* trading service (server/tradingService), as state machines.             *)
(*                                                                         *)
(* Node runs one JavaScript thread: the code between two awaits is one     *)
(* atomic step.  Every action below is "the database call a handler was    *)
(* waiting for takes effect, then the handler runs on to its next await".  *)
(* A database call may also throw; the number of such faults in one run    *)
(* is bounded by MaxFaults.                                                *)
(***************************************************************************)
EXTENDS Integers, Sequences, FiniteSets, TLC

(* ------------------------------ bounds --------------------------------- *)
MaxInFlight == 2   \* handlers and ticks executing at the same time
MaxConfigs == 2    \* trade_configs rows
MaxLogs == 2       \* trade_logs rows
MaxTasks == 2      \* cron tasks that are live at the same time
MaxFaults == 2     \* journal calls that throw

(* --------------------------- input domains ----------------------------- *)
\* One authenticated user; the scheduler map and every journal query are
\* keyed by (userId, network), so a key is a network here.
Networks == {"BNB"}
\* tradeInterval is a free string of the insert schema; "5min" is in
\* intervalMap, "2min" is not.
TradeIntervals == {"5min", "2min"}
\* USD amounts in cents (decimal columns of scale 2): tradeAmountUsd of a
\* saved config, amountUsd of a manual trade.
ConfigAmounts == {500}
ManualAmounts == {300}

VARIABLES
    tradeConfigs,    \* trade_configs rows, id = index
    tradeLogs,       \* trade_logs rows, id = index
    botStatus,       \* bot_status row per network, or NoRow
    tasks,           \* the cron tasks that are scheduled and not stopped, by id
    scheduledTasks,  \* BotScheduler.scheduledTasks: network -> task id, 0 = none
    trades,          \* executing invocations of executeTrade / POST /api/trades/manual
    reqs,            \* executing bot.start, bot.stop and POST /api/configs handlers
    faults,          \* journal calls that have thrown so far
    ts,              \* one TradingService.executeTrade call (SpecTrade)
    env,             \* the networks whose RPC_URL_ and PRIVATE_KEY_ are set
    rt,              \* one retryWithBackoff call (SpecRetry)
    wsClients,       \* wsClients: userId -> the listeners registered for it
    sockets,         \* the WebSocket connections, by listener
    vd,              \* one validation of a request body (SpecValidate)
    v3,              \* one UniswapV3Client.executeSwap call (SpecV3)
    ps,              \* PriceService: the memoized fetch and one getPrice call
    av,              \* one isValidTokenAddress call (SpecAddress)
    ad               \* one executeSwap call of an adapter (SpecAdapter)

\* The variables of the scheduler, the journal and the trading service, and
\* those of the listeners, the validation, the V3 adapter and the prices.
coreVars == <<tradeConfigs, tradeLogs, botStatus, tasks, scheduledTasks, trades,
              reqs, faults, ts, env, rt>>
sideVars == <<wsClients, sockets, vd, v3, ps, av, ad>>

vars == <<coreVars, sideVars>>

NoRow == [exists |-> FALSE]

\* BotScheduler.intervalMap: the intervals that have a cron expression.
intervalMap == {"1min", "5min", "10min", "30min", "1hour"}

\* Functions over a changing set of ids: the executing handlers, the live tasks.
Put(f, id, rec) == [i \in DOMAIN f \cup {id} |-> IF i = id THEN rec ELSE f[i]]
Drop(f, id) == [i \in DOMAIN f \ {id} |-> f[i]]
FreeId(f, max) == CHOOSE i \in (1..max) \ DOMAIN f :
                    \A j \in (1..max) \ DOMAIN f : i <= j

(* ------------------------------ journal -------------------------------- *)

\* storage.getActiveConfig: the ids of the rows its WHERE clause matches; the
\* query returns one of them (LIMIT 1 without ORDER BY), or undefined.
getActiveConfig(net) ==
    {c \in 1..Len(tradeConfigs) :
        tradeConfigs[c].network = net /\ tradeConfigs[c].isActive}

\* storage.deactivateConfigsForNetwork: UPDATE ... SET isActive = false.
deactivateConfigsForNetwork(net) ==
    [c \in 1..Len(tradeConfigs) |->
        IF tradeConfigs[c].network = net
        THEN [tradeConfigs[c] EXCEPT !.isActive = FALSE]
        ELSE tradeConfigs[c]]

\* storage.createTradeLog: INSERT of the pending row.  writes counts the
\* later writes of a terminal status to the row.
createTradeLog(net, type, cfg, amount) ==
    Append(tradeLogs, [network |-> net, tradeType |-> type, configId |-> cfg,
                       amountUsd |-> amount, status |-> "pending", writes |-> 0])

\* storage.updateTradeLog: UPDATE ... SET status = ... WHERE id = ...; there is
\* no guard on the row's current status.
updateTradeLog(id, status) ==
    [tradeLogs EXCEPT ![id].status = status, ![id].writes = @ + 1]

\* Counters whose failed count grows with every trade, successful or not.
AdvanceCountersAlwaysFailed(snap, success, amount) ==
    [totalTradesCount |-> snap.totalTradesCount + 1,
     successfulTradesCount |-> IF success THEN snap.successfulTradesCount + 1
                               ELSE snap.successfulTradesCount,
     failedTradesCount |-> snap.failedTradesCount + 1,
     totalVolumeUsd |-> IF success THEN snap.totalVolumeUsd + amount
                        ELSE snap.totalVolumeUsd]

\* The counters both trade paths compute from the BotStatus row they read.
AdvanceCounters(snap, success, amount) ==
    [totalTradesCount |-> snap.totalTradesCount + 1,
     successfulTradesCount |-> IF success THEN snap.successfulTradesCount + 1
                               ELSE snap.successfulTradesCount,
     failedTradesCount |-> IF success THEN snap.failedTradesCount
                           ELSE snap.failedTradesCount + 1,
     totalVolumeUsd |-> IF success THEN snap.totalVolumeUsd + amount
                        ELSE snap.totalVolumeUsd]

\* storage.updateBotStatus with the counters of a trade: the UPDATE sets the
\* columns it is given and leaves isRunning and activeConfigId alone; a tick
\* also sets nextTradeAt, a manual trade does not.
updateBotStatusCounters(net, c, automated) ==
    IF ~botStatus[net].exists THEN botStatus
    ELSE [botStatus EXCEPT
            ![net].totalTradesCount = c.totalTradesCount,
            ![net].successfulTradesCount = c.successfulTradesCount,
            ![net].failedTradesCount = c.failedTradesCount,
            ![net].totalVolumeUsd = c.totalVolumeUsd,
            ![net].nextTradeAt = IF automated THEN TRUE ELSE @]

\* storage.upsertBotStatus, its write: UPDATE when its read found a row,
\* INSERT (counters at their column defaults) when it found none.
upsertBotStatusRunning(net, cfg, existing) ==
    IF existing
    THEN IF ~botStatus[net].exists THEN botStatus
         ELSE [botStatus EXCEPT ![net].isRunning = TRUE,
                                ![net].activeConfigId = cfg,
                                ![net].nextTradeAt = TRUE]
    ELSE [botStatus EXCEPT ![net] =
            [exists |-> TRUE, isRunning |-> TRUE, activeConfigId |-> cfg,
             nextTradeAt |-> TRUE, totalTradesCount |-> 0,
             successfulTradesCount |-> 0, failedTradesCount |-> 0,
             totalVolumeUsd |-> 0]]

\* An UPDATE whose WHERE clause lacks the network: every row is stopped.
updateBotStatusStoppedAllKeys(net) ==
    [n \in DOMAIN botStatus |->
        IF ~botStatus[n].exists THEN botStatus[n]
        ELSE [botStatus[n] EXCEPT !.isRunning = FALSE, !.nextTradeAt = FALSE]]

\* storage.updateBotStatus as POST /api/bot/stop calls it.
updateBotStatusStopped(net) ==
    IF ~botStatus[net].exists THEN botStatus
    ELSE [botStatus EXCEPT ![net].isRunning = FALSE, ![net].nextTradeAt = FALSE]

(* ----------------------------- scheduler ------------------------------- *)

\* BotScheduler.isRunning: membership in the map.
isRunning(net) == scheduledTasks[net] # 0

\* BotScheduler.stopBot: task.stop() and scheduledTasks.delete(botKey).
stopBotTasks(net) ==
    IF scheduledTasks[net] # 0 THEN Drop(tasks, scheduledTasks[net]) ELSE tasks

stopBotMap(net) == [scheduledTasks EXCEPT ![net] = 0]

\* History of stopBot for the ticks: seenStop marks the ticks of the key that
\* were executing when stopBot was called.  stopBot itself does not touch them.
stopBotTicks(net) ==
    [i \in DOMAIN trades |->
        IF trades[i].tradeType = "automated" /\ trades[i].network = net
        THEN [trades[i] EXCEPT !.seenStop = TRUE] ELSE trades[i]]

\* A startBot that schedules the new task without stopping the one in the map.
startBotScheduleNoStop(net, cfg) ==
    [id |-> FreeId(tasks, MaxTasks),
     tasks |-> Put(tasks, FreeId(tasks, MaxTasks), [network |-> net, configId |-> cfg])]

\* BotScheduler.startBot up to its first await, on a known interval:
\* this.stopBot(...), then cron.schedule(...): the live tasks afterwards and
\* the id of the task just scheduled.
startBotSchedule(net, cfg) ==
    [id |-> FreeId(stopBotTasks(net), MaxTasks),
     tasks |-> Put(stopBotTasks(net), FreeId(stopBotTasks(net), MaxTasks),
                   [network |-> net, configId |-> cfg])]

(* --------------------------- request handlers -------------------------- *)

NewReq(kind, net, pc) ==
    [kind |-> kind, network |-> net, pc |-> pc, configId |-> 0,
     isActive |-> FALSE, tradeInterval |-> "", tradeAmountUsd |-> 0,
     existing |-> FALSE, restart |-> FALSE]

\* The handlers and ticks that have started and not yet ended.
InFlight == Cardinality(DOMAIN reqs) + Cardinality(DOMAIN trades)

\* POST /api/bot/start arrives: storage.getActiveConfig is awaited.
ReqStart(net) ==
    /\ InFlight < MaxInFlight
    /\ reqs' = Put(reqs, FreeId(reqs, MaxInFlight), NewReq("start", net, "getActive"))
    /\ UNCHANGED <<tradeConfigs, tradeLogs, botStatus, tasks, scheduledTasks, trades, faults, ts, env, rt, sideVars>>

\* A startBot that schedules the task whatever the interval is.
startBotAnyInterval(r, net, cfg, interval) ==
    /\ trades' = stopBotTicks(net)
    /\ Cardinality(DOMAIN tasks) < MaxTasks
    /\ tasks' = startBotSchedule(net, cfg).tasks
    /\ scheduledTasks' = [scheduledTasks EXCEPT ![net] = startBotSchedule(net, cfg).id]
    /\ reqs' = [reqs EXCEPT ![r].pc = "upsertGet", ![r].configId = cfg]

\* BotScheduler.startBot(userId, config) up to its await of upsertBotStatus,
\* run by request r: the prior task is stopped; an interval outside
\* intervalMap throws (the handler answers with an error and ends); otherwise
\* the new task is scheduled and scheduledTasks.set(botKey, task) stores it.
startBot(r, net, cfg, interval) ==
    /\ trades' = stopBotTicks(net)
    /\ IF interval \in intervalMap
       THEN /\ Cardinality(DOMAIN tasks) < MaxTasks
            /\ tasks' = startBotSchedule(net, cfg).tasks
            /\ scheduledTasks' = [scheduledTasks EXCEPT ![net] = startBotSchedule(net, cfg).id]
            /\ reqs' = [reqs EXCEPT ![r].pc = "upsertGet", ![r].configId = cfg]
       ELSE /\ tasks' = stopBotTasks(net)
            /\ scheduledTasks' = stopBotMap(net)
            /\ reqs' = Drop(reqs, r)

\* A handler that calls stopBot before it looks at the config it was given.
StartGetActiveUnchecked(r) ==
    /\ reqs[r].pc = "getActive"
    /\ IF getActiveConfig(reqs[r].network) = {}
       THEN /\ reqs' = Drop(reqs, r)
            /\ tasks' = stopBotTasks(reqs[r].network)
            /\ scheduledTasks' = stopBotMap(reqs[r].network)
            /\ trades' = stopBotTicks(reqs[r].network)
       ELSE \E c \in getActiveConfig(reqs[r].network) :
                startBot(r, reqs[r].network, c, tradeConfigs[c].tradeInterval)
    /\ UNCHANGED <<tradeConfigs, tradeLogs, botStatus, faults, ts, env, rt, sideVars>>

\* POST /api/bot/start after getActiveConfig returned: 400 without an active
\* config, else botScheduler.startBot(userId, activeConfig).
StartGetActive(r) ==
    /\ reqs[r].pc = "getActive"
    /\ IF getActiveConfig(reqs[r].network) = {}
       THEN /\ reqs' = Drop(reqs, r)
            /\ UNCHANGED <<tasks, scheduledTasks, trades>>
       ELSE \E c \in getActiveConfig(reqs[r].network) :
                startBot(r, reqs[r].network, c, tradeConfigs[c].tradeInterval)
    /\ UNCHANGED <<tradeConfigs, tradeLogs, botStatus, faults, ts, env, rt, sideVars>>

\* storage.upsertBotStatus, its read: getBotStatus(userId, network).
UpsertGet(r) ==
    /\ reqs[r].pc = "upsertGet"
    /\ reqs' = [reqs EXCEPT ![r].pc = "upsertPut",
                            ![r].existing = botStatus[reqs[r].network].exists]
    /\ UNCHANGED <<tradeConfigs, tradeLogs, botStatus, tasks, scheduledTasks, trades, faults, ts, env, rt, sideVars>>

\* Whether the write of upsertBotStatus goes through: an INSERT that finds a
\* row of the key violates bot_status_user_network_idx and throws.
UpsertAccepted(r) == reqs[r].existing \/ ~botStatus[reqs[r].network].exists

\* storage.upsertBotStatus, its write; the handler then answers and ends.
UpsertPut(r) ==
    /\ reqs[r].pc = "upsertPut"
    /\ IF UpsertAccepted(r)
       THEN botStatus' = upsertBotStatusRunning(reqs[r].network, reqs[r].configId,
                                                reqs[r].existing)
       ELSE UNCHANGED botStatus
    /\ reqs' = Drop(reqs, r)
    /\ UNCHANGED <<tradeConfigs, tradeLogs, tasks, scheduledTasks, trades, faults, ts, env, rt, sideVars>>

\* POST /api/bot/stop arrives: botScheduler.stopBot runs at once, then
\* storage.updateBotStatus is awaited.
ReqStop(net) ==
    /\ InFlight < MaxInFlight
    /\ tasks' = stopBotTasks(net)
    /\ scheduledTasks' = stopBotMap(net)
    /\ trades' = stopBotTicks(net)
    /\ reqs' = Put(reqs, FreeId(reqs, MaxInFlight), NewReq("stop", net, "stopUpdate"))
    /\ UNCHANGED <<tradeConfigs, tradeLogs, botStatus, faults, ts, env, rt, sideVars>>

\* POST /api/bot/stop: updateBotStatus { isRunning: false, nextTradeAt: null }.
StopUpdate(r) ==
    /\ reqs[r].pc = "stopUpdate"
    /\ botStatus' = updateBotStatusStopped(reqs[r].network)
    /\ reqs' = Drop(reqs, r)
    /\ UNCHANGED <<tradeConfigs, tradeLogs, tasks, scheduledTasks, trades, faults, ts, env, rt, sideVars>>

\* The saves whose INSERT is still to come.
SavesPending ==
    Cardinality({r \in DOMAIN reqs : reqs[r].pc \in {"deactivate", "insert"}})

\* POST /api/configs arrives with a body the insert schema accepts:
\* storage.createConfig starts with deactivateConfigsForNetwork.
ReqSave(net, active, interval, amount) ==
    /\ InFlight < MaxInFlight
    /\ Len(tradeConfigs) + SavesPending < MaxConfigs
    /\ reqs' = Put(reqs, FreeId(reqs, MaxInFlight),
                   [NewReq("save", net, "deactivate") EXCEPT
                        !.isActive = active, !.tradeInterval = interval,
                        !.tradeAmountUsd = amount])
    /\ UNCHANGED <<tradeConfigs, tradeLogs, botStatus, tasks, scheduledTasks, trades, faults, ts, env, rt, sideVars>>

\* storage.createConfig, first statement: the UPDATE that deactivates.
SaveDeactivate(r) ==
    /\ reqs[r].pc = "deactivate"
    /\ tradeConfigs' = deactivateConfigsForNetwork(reqs[r].network)
    /\ reqs' = [reqs EXCEPT ![r].pc = "insert"]
    /\ UNCHANGED <<tradeLogs, botStatus, tasks, scheduledTasks, trades, faults, ts, env, rt, sideVars>>

\* storage.createConfig, second statement: the INSERT; then the handler's
\* isRunning test and, when the bot runs, `await botScheduler.stopBot(...)`.
\* A handler that finds no running bot answers and ends.
SaveInsert(r) ==
    /\ reqs[r].pc = "insert"
    /\ tradeConfigs' = Append(tradeConfigs,
            [network |-> reqs[r].network, isActive |-> reqs[r].isActive,
             tradeInterval |-> reqs[r].tradeInterval,
             tradeAmountUsd |-> reqs[r].tradeAmountUsd])
    /\ IF isRunning(reqs[r].network)
       THEN /\ tasks' = stopBotTasks(reqs[r].network)
            /\ scheduledTasks' = stopBotMap(reqs[r].network)
            /\ trades' = stopBotTicks(reqs[r].network)
            /\ reqs' = [reqs EXCEPT ![r].pc = "afterStop",
                                    ![r].configId = Len(tradeConfigs) + 1,
                                    ![r].restart = TRUE]
       ELSE /\ reqs' = Drop(reqs, r)
            /\ UNCHANGED <<tasks, scheduledTasks, trades>>
    /\ UNCHANGED <<tradeLogs, botStatus, faults, ts, env, rt, sideVars>>

\* POST /api/configs after the await of stopBot: startBot when the new config
\* is active, else the handler answers and ends.
SaveRestart(r) ==
    /\ reqs[r].pc = "afterStop"
    /\ IF reqs[r].isActive
       THEN startBot(r, reqs[r].network, reqs[r].configId, reqs[r].tradeInterval)
       ELSE /\ reqs' = Drop(reqs, r)
            /\ UNCHANGED <<tasks, scheduledTasks, trades>>
    /\ UNCHANGED <<tradeConfigs, tradeLogs, botStatus, faults, ts, env, rt, sideVars>>

\* The journal call request r awaits throws: the handler's catch answers with
\* an error status and the handler ends.
ReqFault(r) ==
    /\ reqs[r].pc \in {"getActive", "upsertGet", "upsertPut", "stopUpdate",
                       "deactivate", "insert"}
    /\ faults < MaxFaults
    /\ faults' = faults + 1
    /\ reqs' = Drop(reqs, r)
    /\ UNCHANGED <<tradeConfigs, tradeLogs, botStatus, tasks, scheduledTasks, trades, ts, env, rt, sideVars>>


(* ------------------------ ticks and manual trades ---------------------- *)

MaxListeners == 2

Listeners == 1..MaxListeners

Users == {"u1", "u2"}

\* The user of the stored configs, of the bot and of the manual trades: the
\* scheduler map is keyed by (userId, network) and one user is followed.
BotUser == "u1"

\* A broadcast that sends to every registered socket, whatever its state.
RecipientsNoStateCheck(u) == wsClients[u]

\* broadcastToUser: the sockets of the user's set that the message is sent
\* to, those with `client.readyState === WebSocket.OPEN`.
Recipients(u) == {l \in wsClients[u] : sockets[l].readyState = "OPEN"}

\* The sockets after broadcastToUser(userId, data): client.send on each
\* recipient.  A trade path calls it after its journal writes:
\* this.broadcaster(userId, { type: 'new_trade' }) and { type: 'bot_status' }
\* in BotScheduler.executeTrade (the broadcaster is set when the routes are
\* registered), broadcastToUser(userId, { type: 'new_trade', ... }) in the
\* manual handler.
Delivered(u) ==
    [l \in Listeners |->
        IF l \in Recipients(u)
        THEN [sockets[l] EXCEPT !.got = @ \cup {u}] ELSE sockets[l]]

NoSnap == [totalTradesCount |-> 0, successfulTradesCount |-> 0,
           failedTradesCount |-> 0, totalVolumeUsd |-> 0]

NewTrade(type, net, cfg, amount) ==
    [tradeType |-> type, network |-> net, configId |-> cfg, amountUsd |-> amount,
     pc |-> "createLog", log |-> 0, result |-> "none", snap |-> NoSnap,
     seenStop |-> FALSE]

\* The ticks of a key that are executing: fired, and neither returned nor thrown.
TicksInFlight(net) ==
    {i \in DOMAIN trades :
        trades[i].tradeType = "automated" /\ trades[i].network = net}

\* The rows the executing trades have still to insert.
LogsPending == Cardinality({i \in DOMAIN trades : trades[i].log = 0})

\* Whether the timer of the live task t may run its callback now.
\* cron.schedule is called without an overlap option and the callback takes no
\* lock: a task that has not been stopped fires whatever else is executing.
MayFire(t) == TRUE

\* The cron callback of task t runs: executeTrade(userId, config) with the
\* config object startBot captured; storage.createTradeLog is awaited.
Fire(t) ==
    /\ MayFire(t)
    /\ InFlight < MaxInFlight
    /\ Len(tradeLogs) + LogsPending < MaxLogs
    /\ trades' = Put(trades, FreeId(trades, MaxInFlight),
            NewTrade("automated", tasks[t].network, tasks[t].configId,
                     tradeConfigs[tasks[t].configId].tradeAmountUsd))
    /\ UNCHANGED <<tradeConfigs, tradeLogs, botStatus, tasks, scheduledTasks, reqs, faults, ts, env, rt, sideVars>>

\* POST /api/trades/manual arrives with a valid body: createTradeLog is awaited.
ReqManual(net, amount) ==
    /\ InFlight < MaxInFlight
    /\ Len(tradeLogs) + LogsPending < MaxLogs
    /\ trades' = Put(trades, FreeId(trades, MaxInFlight),
                     NewTrade("manual", net, 0, amount))
    /\ UNCHANGED <<tradeConfigs, tradeLogs, botStatus, tasks, scheduledTasks, reqs, faults, ts, env, rt, sideVars>>

\* The pending row is inserted; tradingService.executeTrade is awaited.
TradeCreateLog(i) ==
    /\ trades[i].pc = "createLog"
    /\ tradeLogs' = createTradeLog(trades[i].network, trades[i].tradeType,
                                   trades[i].configId, trades[i].amountUsd)
    /\ trades' = [trades EXCEPT ![i].pc = "trade", ![i].log = Len(tradeLogs) + 1]
    /\ UNCHANGED <<tradeConfigs, botStatus, tasks, scheduledTasks, reqs, faults, ts, env, rt, sideVars>>

\* tradingService.executeTrade returns its outcome (it catches every
\* exception itself); storage.updateTradeLog is awaited with the outcome.
TradeExecute(i) ==
    /\ trades[i].pc = "trade"
    /\ \E res \in {"success", "failed"} :
        trades' = [trades EXCEPT ![i].pc = "updateLog", ![i].result = res]
    /\ UNCHANGED <<tradeConfigs, tradeLogs, botStatus, tasks, scheduledTasks, reqs, faults, ts, env, rt, sideVars>>

\* The terminal status is written; storage.getBotStatus is awaited.
TradeUpdateLog(i) ==
    /\ trades[i].pc = "updateLog"
    /\ tradeLogs' = updateTradeLog(trades[i].log, trades[i].result)
    /\ trades' = [trades EXCEPT ![i].pc = "getStatus"]
    /\ UNCHANGED <<tradeConfigs, botStatus, tasks, scheduledTasks, reqs, faults, ts, env, rt, sideVars>>

\* getBotStatus returns: with a row, updateBotStatus is awaited with counters
\* computed from that row; without one the counters are skipped and the
\* handler broadcasts, returns and ends.
TradeGetStatus(i) ==
    /\ trades[i].pc = "getStatus"
    /\ IF botStatus[trades[i].network].exists
       THEN /\ trades' = [trades EXCEPT ![i].pc = "updateStatus",
                 ![i].snap = [f \in DOMAIN NoSnap |-> botStatus[trades[i].network][f]]]
            /\ UNCHANGED sockets
       ELSE /\ trades' = Drop(trades, i)
            /\ sockets' = Delivered(BotUser)
    /\ UNCHANGED <<tradeConfigs, tradeLogs, botStatus, tasks, scheduledTasks, reqs, faults, ts, env, rt>>
    /\ UNCHANGED <<wsClients, vd, v3, ps, av, ad>>

\* The counters are written; the handler broadcasts, returns and ends.
TradeUpdateStatus(i) ==
    /\ trades[i].pc = "updateStatus"
    /\ botStatus' = updateBotStatusCounters(trades[i].network,
            AdvanceCounters(trades[i].snap, trades[i].result = "success",
                            trades[i].amountUsd),
            trades[i].tradeType = "automated")
    /\ sockets' = Delivered(BotUser)
    /\ trades' = Drop(trades, i)
    /\ UNCHANGED <<tradeConfigs, tradeLogs, tasks, scheduledTasks, reqs, faults, ts, env, rt>>
    /\ UNCHANGED <<wsClients, vd, v3, ps, av, ad>>

\* Whether a journal call that throws at pc is caught by the catch block of
\* BotScheduler.executeTrade: createTradeLog is called before the try block,
\* the later calls inside it.  The manual handler's catch only answers 400.
CaughtByTick(type, pc) == type = "automated" /\ pc # "createLog"

\* The journal call trade i awaits throws.
TradeFault(i) ==
    /\ trades[i].pc \in {"createLog", "updateLog", "getStatus", "updateStatus"}
    /\ faults < MaxFaults
    /\ faults' = faults + 1
    /\ IF CaughtByTick(trades[i].tradeType, trades[i].pc)
       THEN trades' = [trades EXCEPT ![i].pc = "catch", ![i].snap = NoSnap]
       ELSE trades' = Drop(trades, i)
    /\ UNCHANGED <<tradeConfigs, tradeLogs, botStatus, tasks, scheduledTasks, reqs, ts, env, rt, sideVars>>

\* The catch block of BotScheduler.executeTrade: updateTradeLog(id, failed);
\* executeTrade then returns.
TradeCatch(i) ==
    /\ trades[i].pc = "catch"
    /\ tradeLogs' = updateTradeLog(trades[i].log, "failed")
    /\ trades' = Drop(trades, i)
    /\ UNCHANGED <<tradeConfigs, botStatus, tasks, scheduledTasks, reqs, faults, ts, env, rt, sideVars>>

\* The catch block's own updateTradeLog throws: executeTrade rejects.
TradeCatchFault(i) ==
    /\ trades[i].pc = "catch"
    /\ faults < MaxFaults
    /\ faults' = faults + 1
    /\ trades' = Drop(trades, i)
    /\ UNCHANGED <<tradeConfigs, tradeLogs, botStatus, tasks, scheduledTasks, reqs, ts, env, rt, sideVars>>

(* --------------------------- trading service --------------------------- *)

\* TradeParams of one TradingService.executeTrade call.  amountUsd is in
\* cents, maxGasRatio in hundredths, a native token price in whole USD, a gas
\* price in gwei.
NetworkTypes == {"ETH", "BASE", "BNB", "SOL"}
\* dexVersion is optional: "none" is a call without it.
DexVersions == {"auto", "v2", "v3", "v4", "none"}
\* PRIVATE_KEY_<network>: not set, set to something that is not a key, a key.
PrivateKeys == {"unset", "malformed", "valid"}
\* The shape of tokenAddress: 0x and 40 hex digits, 32 to 44 base58 characters
\* (no string has both shapes: 0 is not a base58 character), anything else.
\* AddressSample gives the string of each shape that is passed on.
AddressShapes == {"0xhex40", "base58", "other"}
TradeAmounts == {500, 1000}
MaxGasRatios == {50, 80}
NativePrices == {600, 2000, 2500}
GasPrices == {5, 10}
\* gasFeeUsd in cents that an adapter reports from the receipt of its swap.
ReceiptFees == {150}

\* estimateGas: `const estimatedGas = BigInt(200000)`.
EstimatedGas == 200000

\* An optional field of a TradeResult or of a trade_logs row is a set: empty
\* when the field is undefined / the column is null.
NoResult ==
    [success |-> FALSE, txHash |-> {}, gasFee |-> {}, gasFeeUsd |-> {},
     errorMessage |-> {}]

\* A failed outcome that carries no errorMessage.
FailureNoMessage(message) == NoResult

\* { success: false, errorMessage }.
Failure(message) == [NoResult EXCEPT !.errorMessage = {message}]

\* The row storage.createTradeLog inserted for the trade.
PendingLog ==
    [status |-> "pending", txHash |-> {}, gasFee |-> {}, gasFeeUsd |-> {},
     errorMessage |-> {}]

\* Besides the locals of the call: raised tells that an exception was raised
\* inside it, oracle counts the priceService.getPrice calls, gasCalls the
\* estimateGas calls, calls lists the adapters invoked, sent counts the
\* transactions the adapters handed to the chain, v3Outcome is what the
\* V3 adapter answered, v3Quote whether some V3 fee tier quotes the token.
tsIdle ==
    [pc |-> "idle", network |-> "", dexVersion |-> "", amountUsd |-> 0,
     maxGasRatio |-> 0, rpc |-> FALSE, key |-> "", address |-> "",
     v3Quote |-> FALSE, price |-> 0, gasPrice |-> 0, gasFeeUsd |-> 0,
     gasChecked |-> FALSE, adapter |-> "", calls |-> <<>>, submitted |-> FALSE,
     sent |-> 0,
     v3Outcome |-> "", raised |-> FALSE, oracle |-> 0, gasCalls |-> 0,
     result |-> NoResult, log |-> PendingLog]

\* A network check that is content with a private key alone.
isNetworkAvailableKeyOnly(rpc, key) == key # "unset"

\* TradingService.isNetworkAvailable: the private key is set and the RPC
\* client (web3 instance or Solana connection) exists.
isNetworkAvailable(rpc, key) == key # "unset" /\ rpc

\* The character classes of the two regular expressions: [a-fA-F0-9] and
\* [1-9A-HJ-NP-Za-km-z].
HexDigits ==
    {"0", "1", "2", "3", "4", "5", "6", "7", "8", "9",
     "a", "b", "c", "d", "e", "f", "A", "B", "C", "D", "E", "F"}
Base58Alphabet ==
    {"1", "2", "3", "4", "5", "6", "7", "8", "9",
     "A", "B", "C", "D", "E", "F", "G", "H", "J", "K", "L", "M", "N",
     "P", "Q", "R", "S", "T", "U", "V", "W", "X", "Y", "Z",
     "a", "b", "c", "d", "e", "f", "g", "h", "i", "j", "k",
     "m", "n", "o", "p", "q", "r", "s", "t", "u", "v", "w", "x", "y", "z"}

\* The characters of class that s has in a row after its first `from`
\* characters, at most max of them: what [class]{min,max} consumes.
ClassRun(s, from, class, max) ==
    LET rest == Len(s) - from
        bad == {i \in 1..rest : s[from + i] \notin class}
        run == IF bad = {} THEN rest
               ELSE (CHOOSE i \in bad : \A j \in bad : i <= j) - 1
    IN IF run > max THEN max ELSE run

\* A test without the $ anchor: what follows the run is not looked at.
RegExpTestUnanchored(prefix, class, min, max, s) ==
    /\ Len(s) >= Len(prefix)
    /\ SubSeq(s, 1, Len(prefix)) = prefix
    /\ ClassRun(s, Len(prefix), class, max) >= min

\* /^prefix[class]{min,max}$/.test(s): the literal prefix at the start, then
\* between min and max characters of the class, then the end of the string.
RegExpTest(prefix, class, min, max, s) ==
    /\ Len(s) >= Len(prefix)
    /\ SubSeq(s, 1, Len(prefix)) = prefix
    /\ ClassRun(s, Len(prefix), class, max) >= min
    /\ Len(prefix) + ClassRun(s, Len(prefix), class, max) = Len(s)

\* TradingService.isValidTokenAddress: /^[1-9A-HJ-NP-Za-km-z]{32,44}$/ on SOL,
\* /^0x[a-fA-F0-9]{40}$/ on every other network.
isValidTokenAddress(net, address) ==
    IF net = "SOL" THEN RegExpTest(<<>>, Base58Alphabet, 32, 44, address)
    ELSE RegExpTest(<<"0", "x">>, HexDigits, 40, 40, address)

\* n times the character c.
Repeat(c, n) == [i \in 1..n |-> c]

\* A token address of each shape: 0x and 40 times "a", 44 times "z", "0x".
AddressSample(shape) ==
    IF shape = "0xhex40" THEN <<"0", "x">> \o Repeat("a", 40)
    ELSE IF shape = "base58" THEN Repeat("z", 44)
    ELSE <<"0", "x">>

\* The strings isValidTokenAddress is called with: a prefix, then a run of
\* one character whose first or last character may be another one.
AddressPrefixes == {<<>>, <<"0", "x">>, <<"0", "X">>}
AddressLengths == {31, 32, 39, 40, 41, 44, 45}
AddressFills == {"a", "F", "9", "z"}
AddressOdds == {"0", "O", "I", "l", "g"}
AddressInputs ==
    {p \o Repeat(c, n) : p \in AddressPrefixes, c \in AddressFills, n \in AddressLengths}
    \cup {p \o <<o>> \o Repeat(c, n - 1) :
            p \in AddressPrefixes, c \in AddressFills, n \in AddressLengths, o \in AddressOdds}
    \cup {p \o Repeat(c, n - 1) \o <<o>> :
            p \in AddressPrefixes, c \in AddressFills, n \in AddressLengths, o \in AddressOdds}

avIdle == [pc |-> "idle", network |-> "", address |-> <<>>, valid |-> FALSE]

\* isValidTokenAddress(network, address) is called and returns.
AvTest(net, address) ==
    /\ av.pc = "idle"
    /\ av' = [pc |-> "returned", network |-> net, address |-> address,
              valid |-> isValidTokenAddress(net, address)]
    /\ UNCHANGED <<coreVars, wsClients, sockets, vd, v3, ps, ad>>

\* The caller goes on to its next call.
AvNext ==
    /\ av.pc = "returned"
    /\ av' = avIdle
    /\ UNCHANGED <<coreVars, wsClients, sockets, vd, v3, ps, ad>>

\* The catch blocks of executeEVMTrade and executeSolanaTrade: an exception
\* raised inside becomes a failed outcome.
TradeFailed(t) ==
    [t EXCEPT !.pc = "returned", !.raised = TRUE,
              !.result = Failure(IF t.network = "SOL" THEN "Solana trade failed"
                                 ELSE "EVM trade failed")]

\* TradingService.estimateGas on an EVM network, its gasFeeUsd in 1/10000 USD:
\* gasPrice * estimatedGas is the fee in gwei, fromWei(..., 'ether') makes it
\* ether (100000 gwei are 1/10000 ether), and the product with the native
\* token price makes it USD.
estimateGas(gasPrice, nativeTokenPrice) ==
    ((gasPrice * EstimatedGas) \div 100000) * nativeTokenPrice

\* A pre-check that also rejects a ratio equal to maxGasRatio.
GasTooHighOrEqual(gasFeeUsd, amountUsd, maxGasRatio) ==
    gasFeeUsd >= maxGasRatio * amountUsd

\* The pre-check `gasEstimate.gasRatio > params.maxGasRatio`, where gasRatio is
\* gasFeeUsd / amountUsd: with gasFeeUsd in 1/10000 USD, amountUsd in cents
\* and maxGasRatio in hundredths both sides are multiplied by 100 * amountUsd.
GasTooHigh(gasFeeUsd, amountUsd, maxGasRatio) ==
    gasFeeUsd > maxGasRatio * amountUsd

\* gasEstimate.gasFeeUsd.toFixed(2): 1/10000 USD rounded to cents.
gasFeeUsdFixed(gasFeeUsd) == (gasFeeUsd + 50) \div 100

\* (gasEstimate.gasFeeUsd / nativeTokenPriceUsd).toFixed(6): the fee in
\* millionths of the native token, rounded.
gasFeeFixed(gasFeeUsd, nativeTokenPrice) ==
    (200 * gasFeeUsd + nativeTokenPrice) \div (2 * nativeTokenPrice)

\* The failed outcome of the pre-check.
GasRejection(t) ==
    [Failure("Gas fee exceeds ratio") EXCEPT
        !.gasFee = {gasFeeFixed(t.gasFeeUsd, t.price)},
        !.gasFeeUsd = {gasFeeUsdFixed(t.gasFeeUsd)}]

\* executeEVMTrade after the pre-check passed: the adapter chosen by network
\* and dexVersion, or the failure for v4 on ETH and BASE.
Dispatch(t) ==
    IF t.network = "BNB" THEN [t EXCEPT !.pc = "adapter", !.adapter = "pancakeswap"]
    ELSE IF t.dexVersion = "v4"
         THEN [t EXCEPT !.pc = "returned", !.result = Failure("Uniswap V4 under development")]
    ELSE IF t.dexVersion = "v2"
         THEN [t EXCEPT !.pc = "adapter", !.adapter = "uniswapV2"]
    ELSE [t EXCEPT !.pc = "adapter", !.adapter = "uniswapV3"]

\* executeTrade is called: the network and address validations run, then the
\* account is derived from the private key (which throws on a malformed key),
\* then priceService.getPrice is awaited.
TsCall(net, ver, rpc, key, address, quote, amount, ratio) ==
    /\ ts.pc = "idle"
    /\ LET t == [ts EXCEPT !.network = net, !.dexVersion = ver, !.rpc = rpc,
                           !.key = key, !.address = address, !.v3Quote = quote,
                           !.amountUsd = amount, !.maxGasRatio = ratio]
       IN ts' = IF ~isNetworkAvailable(rpc, key)
                THEN [t EXCEPT !.pc = "returned",
                               !.result = Failure("Network not configured")]
                ELSE IF ~isValidTokenAddress(net, AddressSample(address))
                THEN [t EXCEPT !.pc = "returned",
                               !.result = Failure("Invalid token address format")]
                ELSE IF key = "malformed" THEN TradeFailed(t)
                ELSE [t EXCEPT !.pc = "price"]
    /\ UNCHANGED <<tradeConfigs, tradeLogs, botStatus, tasks, scheduledTasks, trades, reqs, faults, env, rt, sideVars>>

\* priceService.getPrice returns (a quote or the fallback price; it never
\* throws).  Solana goes to Jupiter, an EVM network to estimateGas, which
\* awaits web3.eth.getGasPrice.
TsPrice(p) ==
    /\ ts.pc = "price"
    /\ ts' = IF ts.network = "SOL"
             THEN [ts EXCEPT !.pc = "adapter", !.adapter = "jupiter", !.price = p,
                             !.oracle = @ + 1]
             ELSE [ts EXCEPT !.pc = "gasPrice", !.price = p, !.oracle = @ + 1,
                             !.gasCalls = @ + 1]
    /\ UNCHANGED <<tradeConfigs, tradeLogs, botStatus, tasks, scheduledTasks, trades, reqs, faults, env, rt, sideVars>>

\* getGasPrice returns; estimateGas awaits priceService.getPrice.
TsGasPrice(g) ==
    /\ ts.pc = "gasPrice"
    /\ ts' = [ts EXCEPT !.pc = "estimate", !.gasPrice = g, !.oracle = @ + 1]
    /\ UNCHANGED <<tradeConfigs, tradeLogs, botStatus, tasks, scheduledTasks, trades, reqs, faults, env, rt, sideVars>>

\* getGasPrice throws: estimateGas catches and returns gasFeeUsd 0, gasRatio 0,
\* which passes the pre-check.
TsGasPriceFails ==
    /\ ts.pc = "gasPrice"
    /\ ts' = Dispatch([ts EXCEPT !.gasFeeUsd = 0, !.gasChecked = TRUE])
    /\ UNCHANGED <<tradeConfigs, tradeLogs, botStatus, tasks, scheduledTasks, trades, reqs, faults, env, rt, sideVars>>

\* estimateGas returns its estimate and the pre-check runs: the failed outcome
\* when the ratio is too high, else the dispatch to an adapter.
TsEstimate(p) ==
    /\ ts.pc = "estimate"
    /\ LET t == [ts EXCEPT !.gasFeeUsd = estimateGas(ts.gasPrice, p),
                           !.gasChecked = TRUE]
       IN ts' = IF GasTooHigh(t.gasFeeUsd, t.amountUsd, t.maxGasRatio)
                THEN [t EXCEPT !.pc = "returned", !.result = GasRejection(t)]
                ELSE Dispatch(t)
    /\ UNCHANGED <<tradeConfigs, tradeLogs, botStatus, tasks, scheduledTasks, trades, reqs, faults, env, rt, sideVars>>

\* The networks the V3 adapter has router, quoter and WETH addresses for.
V3Networks == {"BASE"}

\* What an adapter's executeSwap can answer: the swap was mined; the signed
\* transaction was sent and then failed; it failed before anything was
\* signed.  The V3 adapter answers "not configured" on a network it has no
\* addresses for, before any probe; with addresses it probes the fee tiers
\* and answers "no pool" when no tier gave a positive quote.
AdapterOutcomes(adapter, net, quote) ==
    IF adapter # "uniswapV3" THEN {"mined", "failedAfterSend", "failedBeforeSend"}
    ELSE IF net \notin V3Networks THEN {"notConfigured"}
    ELSE IF ~quote THEN {"noPool", "failedBeforeSend"}
    ELSE {"mined", "failedAfterSend", "failedBeforeSend"}

\* The TradeResult of an adapter: only a mined swap carries txHash and fees.
AdapterResult(outcome, fee, price) ==
    IF outcome = "mined"
    THEN [success |-> TRUE, txHash |-> {"0xhash"},
          gasFee |-> {gasFeeFixed(100 * fee, price)}, gasFeeUsd |-> {fee},
          errorMessage |-> {}]
    ELSE IF outcome = "noPool"
    THEN Failure("No Uniswap V3 liquidity pool found")
    ELSE IF outcome = "notConfigured"
    THEN Failure("Uniswap V3 not configured for network")
    ELSE Failure("swap failed")

\* `!params.dexVersion || params.dexVersion === 'auto'`.
isAutoMode(ver) == ver \in {"none", "auto"}

\* A rule that falls back to V2 on "no pool" whatever version was selected.
ReturnsV3AnyMode(ver, outcome) == outcome # "noPool"

\* A rule that returns the V3 result only when it succeeded and tries V2
\* after every V3 failure.
ReturnsV3OnSuccess(ver, outcome) == outcome = "mined"

\* Whether the V3 result is returned as it is: it succeeded or v3 was
\* selected, or the fallback to V2 does not apply.
ReturnsV3(ver, outcome) ==
    \/ outcome = "mined"
    \/ ver = "v3"
    \/ ~(isAutoMode(ver) /\ outcome = "noPool")

\* The awaited executeSwap of ts.adapter returns.  In auto mode a V3 answer of
\* "no pool" falls back to the V2 adapter; every other answer is returned.
TsAdapter(outcome, fee) ==
    /\ ts.pc = "adapter"
    /\ outcome \in AdapterOutcomes(ts.adapter, ts.network, ts.v3Quote)
    /\ LET t == [ts EXCEPT !.calls = Append(@, ts.adapter),
                           !.submitted = @ \/ outcome \in {"mined", "failedAfterSend"},
                           !.sent = IF outcome \in {"mined", "failedAfterSend"}
                                    THEN @ + 1 ELSE @,
                           !.v3Outcome = IF ts.adapter = "uniswapV3" THEN outcome ELSE @]
       IN ts' = IF ts.adapter = "uniswapV3" /\ ~ReturnsV3(ts.dexVersion, outcome)
                THEN [t EXCEPT !.adapter = "uniswapV2"]
                ELSE [t EXCEPT !.pc = "returned",
                               !.result = AdapterResult(outcome, fee, ts.price)]
    /\ UNCHANGED <<tradeConfigs, tradeLogs, botStatus, tasks, scheduledTasks, trades, reqs, faults, env, rt, sideVars>>

\* storage.updateTradeLog as both callers of executeTrade use it on the
\* outcome: status from result.success, the other columns from the result;
\* a field that is undefined leaves its column as it is.
updateTradeLogResult(log, result) ==
    [status |-> IF result.success THEN "success" ELSE "failed",
     txHash |-> IF result.txHash = {} THEN log.txHash ELSE result.txHash,
     gasFee |-> IF result.gasFee = {} THEN log.gasFee ELSE result.gasFee,
     gasFeeUsd |-> IF result.gasFeeUsd = {} THEN log.gasFeeUsd ELSE result.gasFeeUsd,
     errorMessage |-> IF result.errorMessage = {} THEN log.errorMessage
                      ELSE result.errorMessage]

\* The caller journals the outcome executeTrade returned.
TsJournal ==
    /\ ts.pc = "returned"
    /\ ts' = [ts EXCEPT !.pc = "logged", !.log = updateTradeLogResult(ts.log, ts.result)]
    /\ UNCHANGED <<tradeConfigs, tradeLogs, botStatus, tasks, scheduledTasks, trades, reqs, faults, env, rt, sideVars>>

(* ------------------------------ retry ---------------------------------- *)

\* Strings are sequences of characters, so that toLowerCase and includes are
\* computed as the code computes them.
UpperCase == <<"A", "B", "C", "D", "E", "F", "G", "H", "I", "J", "K", "L", "M", "N", "O", "P", "Q", "R", "S", "T", "U", "V", "W", "X", "Y", "Z">>
LowerCase == <<"a", "b", "c", "d", "e", "f", "g", "h", "i", "j", "k", "l", "m", "n", "o", "p", "q", "r", "s", "t", "u", "v", "w", "x", "y", "z">>

\* String.prototype.toLowerCase.
toLowerCase(s) ==
    [i \in 1..Len(s) |->
        IF \E k \in 1..Len(UpperCase) : UpperCase[k] = s[i]
        THEN LowerCase[CHOOSE k \in 1..Len(UpperCase) : UpperCase[k] = s[i]]
        ELSE s[i]]

\* String.prototype.includes.
includes(s, p) ==
    \E i \in 0..(Len(s) - Len(p)) : SubSeq(s, i + 1, i + Len(p)) = p

\* retryableErrors of DEFAULT_OPTIONS and of BASE_NETWORK_OPTIONS.
retryableErrors ==
    {<<"4", "2", "9">>,
     <<"r", "a", "t", "e", " ", "l", "i", "m", "i", "t">>,
     <<"t", "o", "o", " ", "m", "a", "n", "y", " ", "r", "e", "q", "u", "e", "s", "t", "s">>,
     <<"E", "C", "O", "N", "N", "R", "E", "S", "E", "T">>,
     <<"E", "T", "I", "M", "E", "D", "O", "U", "T">>,
     <<"E", "N", "O", "T", "F", "O", "U", "N", "D">>}

\* The error messages an attempt can fail with: "HTTP 429", "Rate Limit",
\* "etimedout" and "reverted".
ErrorMessages ==
    {<<"H", "T", "T", "P", " ", "4", "2", "9">>,
     <<"R", "a", "t", "e", " ", "L", "i", "m", "i", "t">>,
     <<"e", "t", "i", "m", "e", "d", "o", "u", "t">>,
     <<"r", "e", "v", "e", "r", "t", "e", "d">>}

\* isRetryableError: the lowered message includes a lowered pattern.
isRetryableError(message, patterns) ==
    \E p \in patterns : includes(toLowerCase(message), toLowerCase(p))

\* DEFAULT_OPTIONS and BASE_NETWORK_OPTIONS (backoffMultiplier in tenths).
DEFAULT_OPTIONS ==
    [maxRetries |-> 3, initialDelayMs |-> 1000, maxDelayMs |-> 10000,
     backoffMultiplier |-> 20]
BASE_NETWORK_OPTIONS ==
    [maxRetries |-> 5, initialDelayMs |-> 2500, maxDelayMs |-> 20000,
     backoffMultiplier |-> 25]

\* `options.network === 'BASE' ? BASE_NETWORK_OPTIONS : DEFAULT_OPTIONS`.
baseOptions(network) ==
    IF network = "BASE" THEN BASE_NETWORK_OPTIONS ELSE DEFAULT_OPTIONS

\* A loop that stops one attempt early.
GivesUpEarly(attempt, maxRetries, retryable) ==
    attempt + 1 >= maxRetries \/ ~retryable

\* A loop that retries whatever the error is.
GivesUpLastOnly(attempt, maxRetries, retryable) == attempt = maxRetries

\* `attempt === opts.maxRetries || !isRetryableError(error, ...)`: the error
\* is thrown to the caller.
GivesUp(attempt, maxRetries, retryable) ==
    attempt = maxRetries \/ ~retryable

\* A delay that grows without the cap of maxDelayMs.
nextDelayUncapped(delayMs, opts) == (delayMs * opts.backoffMultiplier) \div 10

\* `Math.min(delayMs * opts.backoffMultiplier, opts.maxDelayMs)`, rounded down
\* to a millisecond.
nextDelay(delayMs, opts) ==
    IF (delayMs * opts.backoffMultiplier) \div 10 < opts.maxDelayMs
    THEN (delayMs * opts.backoffMultiplier) \div 10
    ELSE opts.maxDelayMs

\* invocations counts the calls of fn, errors lists the errors they threw,
\* sleeps the backoff sleeps that have begun, thrown holds the error
\* propagated to the caller.
rtIdle ==
    [pc |-> "idle", network |-> "", opts |-> DEFAULT_OPTIONS, attempt |-> 0,
     delayMs |-> 0, invocations |-> 0, errors |-> <<>>, sleeps |-> 0,
     thrown |-> {}]

\* retryWithBackoff(fn, { network }) is called: the first fn() is awaited.
RtCall(network) ==
    /\ rt.pc = "idle"
    /\ rt' = [rt EXCEPT !.pc = "attempt", !.network = network,
                        !.opts = baseOptions(network),
                        !.delayMs = baseOptions(network).initialDelayMs,
                        !.invocations = 1]
    /\ UNCHANGED <<tradeConfigs, tradeLogs, botStatus, tasks, scheduledTasks, trades, reqs, faults, ts, env, sideVars>>

\* The awaited fn() resolves: retryWithBackoff returns its value.
RtSucceeds ==
    /\ rt.pc = "attempt"
    /\ rt' = [rt EXCEPT !.pc = "returned"]
    /\ UNCHANGED <<tradeConfigs, tradeLogs, botStatus, tasks, scheduledTasks, trades, reqs, faults, ts, env, sideVars>>

\* The awaited fn() rejects with an error: it is thrown on, or the backoff
\* sleep begins.
RtFails(message) ==
    /\ rt.pc = "attempt"
    /\ rt' = IF GivesUp(rt.attempt, rt.opts.maxRetries,
                        isRetryableError(message, retryableErrors))
             THEN [rt EXCEPT !.pc = "thrown", !.errors = Append(@, message),
                             !.thrown = {message}]
             ELSE [rt EXCEPT !.pc = "sleep", !.errors = Append(@, message),
                             !.sleeps = @ + 1]
    /\ UNCHANGED <<tradeConfigs, tradeLogs, botStatus, tasks, scheduledTasks, trades, reqs, faults, ts, env, sideVars>>

\* The sleep ends: the delay grows, the loop goes to its next attempt and the
\* next fn() is awaited.
RtWakes ==
    /\ rt.pc = "sleep"
    /\ rt' = [rt EXCEPT !.pc = "attempt", !.attempt = @ + 1,
                        !.delayMs = nextDelay(@, rt.opts),
                        !.invocations = @ + 1]
    /\ UNCHANGED <<tradeConfigs, tradeLogs, botStatus, tasks, scheduledTasks, trades, reqs, faults, ts, env, sideVars>>

(* ------------------------------ listeners ------------------------------ *)

\* A connection the server has not accepted yet.  readyState is the state of
\* the transport; sent are the users the listener named in auth messages, got
\* the users whose broadcasts were sent to it.
NoSocket == [readyState |-> "NONE", sent |-> {}, got |-> {}]

\* What a listener may send: text that JSON.parse rejects, or an object with
\* a type and a userId ("" for a missing or empty one).
Messages ==
    [parses : {TRUE}, type : {"auth", "ping"}, userId : Users \cup {""}]
      \cup {[parses |-> FALSE, type |-> "", userId |-> ""]}

\* wss.on('connection'): the handlers are attached to the open socket.
WsConnect(l) ==
    /\ sockets[l].readyState = "NONE"
    /\ sockets' = [sockets EXCEPT ![l].readyState = "OPEN"]
    /\ UNCHANGED <<coreVars, wsClients, vd, v3, ps, av, ad>>

\* ws.on('message'): `data.type === 'auth' && data.userId` registers the
\* socket in the set of that user; anything else, and text that does not
\* parse, changes nothing.
WsMessage(l, m) ==
    /\ sockets[l].readyState = "OPEN"
    /\ IF m.parses /\ m.type = "auth" /\ m.userId # ""
       THEN /\ wsClients' = [wsClients EXCEPT ![m.userId] = @ \cup {l}]
            /\ sockets' = [sockets EXCEPT ![l].sent = @ \cup {m.userId}]
       ELSE UNCHANGED <<wsClients, sockets>>
    /\ UNCHANGED <<coreVars, vd, v3, ps, av, ad>>

\* The transport of a listener goes down (close frame received, socket
\* error): readyState leaves OPEN before the 'close' event is emitted.
WsClosing(l) ==
    /\ sockets[l].readyState = "OPEN"
    /\ sockets' = [sockets EXCEPT ![l].readyState = "CLOSING"]
    /\ UNCHANGED <<coreVars, wsClients, vd, v3, ps, av, ad>>

\* ws.on('close'): the socket is deleted from the set of every user.
WsClose(l) ==
    /\ sockets[l].readyState \in {"OPEN", "CLOSING"}
    /\ sockets' = [sockets EXCEPT ![l].readyState = "CLOSED"]
    /\ wsClients' = [u \in Users |-> wsClients[u] \ {l}]
    /\ UNCHANGED <<coreVars, vd, v3, ps, av, ad>>

\* broadcastToUser(userId, data), called on its own.
broadcastToUser(u) ==
    /\ sockets' = Delivered(u)
    /\ UNCHANGED <<coreVars, wsClients, vd, v3, ps, av, ad>>

(* ------------------------------ validation ----------------------------- *)

\* A body field as the JSON of the request carries it: absent, or a number or
\* a string of digits with value v.  slippageTolerance is in 1/10000 percent
\* (0, 0.1, 5, 50, 50.0001), an amount in cents.
Absent == [kind |-> "absent", v |-> 0]

SlippageInputs ==
    [kind : {"number", "string"}, v : {0, 1000, 50000, 500000, 500001}]
      \cup {Absent}

AmountInputs == [kind : {"number", "string"}, v : {0, 100, 500}]

\* manualTradeSchema.slippageTolerance: z.number().min(0.1).max(50).default(5).
manualSlippageAccepts(f) ==
    \/ f.kind = "absent"
    \/ f.kind = "number" /\ f.v >= 1000 /\ f.v <= 500000

\* manualTradeSchema.amountUsd: z.number().min(1).
manualAmountAccepts(f) == f.kind = "number" /\ f.v >= 100

\* insertTradeConfigSchema.slippageTolerance: createInsertSchema makes the
\* decimal column with a default an optional string; the schema's extend()
\* adds a rule for userId and isActive only.
insertSlippageAccepts(f) == f.kind \in {"absent", "string"}

\* insertTradeConfigSchema.tradeAmountUsd: a decimal column, not null, without
\* default: a required string.
insertAmountAccepts(f) == f.kind = "string"

\* The value a decimal(precision, 2) column stores: rounded to two places,
\* in the units of the field; the INSERT fails with a numeric field overflow
\* when the rounded value has more integer digits than the column.
decimalScale2(v, unit) == ((v + unit \div 2) \div unit) * unit

\* slippage_tolerance decimal(3, 2) default 5.00: the stored value, or none
\* when the INSERT overflows (|value| >= 10).
slippageColumn(f) ==
    IF f.kind = "absent" THEN {50000}
    ELSE IF decimalScale2(f.v, 100) >= 100000 THEN {}
    ELSE {decimalScale2(f.v, 100)}

vdIdle == [pc |-> "idle", command |-> "", slippageTolerance |-> Absent,
           amountUsd |-> Absent, accepted |-> FALSE, persisted |-> {}]

\* POST /api/configs: insertTradeConfigSchema.parse(body); a body the schema
\* rejects is answered with 400, the others go on to storage.createConfig.
VdConfigParse(slip, amount) ==
    /\ vd.pc = "idle"
    /\ vd' = [vd EXCEPT !.command = "config", !.slippageTolerance = slip,
                        !.amountUsd = amount,
                        !.accepted = insertSlippageAccepts(slip)
                                       /\ insertAmountAccepts(amount),
                        !.pc = IF insertSlippageAccepts(slip)
                                  /\ insertAmountAccepts(amount)
                               THEN "insert" ELSE "done"]
    /\ UNCHANGED <<coreVars, wsClients, sockets, v3, ps, av, ad>>

\* storage.createConfig, its INSERT: the row is stored with the column's
\* value, or the statement throws and the handler answers 400.
VdConfigInsert ==
    /\ vd.pc = "insert"
    /\ vd' = [vd EXCEPT !.pc = "done",
                        !.accepted = slippageColumn(vd.slippageTolerance) # {},
                        !.persisted = slippageColumn(vd.slippageTolerance)]
    /\ UNCHANGED <<coreVars, wsClients, sockets, v3, ps, av, ad>>

\* POST /api/trades/manual: manualTradeSchema.parse(body).
VdManualParse(slip, amount) ==
    /\ vd.pc = "idle"
    /\ vd' = [vd EXCEPT !.command = "manual", !.slippageTolerance = slip,
                        !.amountUsd = amount,
                        !.accepted = manualSlippageAccepts(slip)
                                       /\ manualAmountAccepts(amount),
                        !.pc = "done"]
    /\ UNCHANGED <<coreVars, wsClients, sockets, v3, ps, av, ad>>

(* ------------------------------ V3 adapter ----------------------------- *)

\* FEE_TIERS, in the order the loop of executeSwap visits them.
FEE_TIERS == <<100, 500, 3000, 10000>>

\* What one quoteExactInputSingle probe gives: it throws (no pool of that
\* tier, or the retries are used up), or it returns an amountOut.
QuoteOutcomes == [ok : BOOLEAN, amountOut : 0..2]

\* A comparison that lets a later tier with an equal quote win.
BetterQuoteOrEqual(amountOut, bestQuote) ==
    bestQuote = {} \/ \A b \in bestQuote : amountOut >= b

\* `!bestQuote || BigInt(quote.amountOut) > BigInt(bestQuote.amountOut)`.
BetterQuote(amountOut, bestQuote) ==
    bestQuote = {} \/ \A b \in bestQuote : amountOut > b

\* bestQuote is null ({}) or the amountOut of the best quote so far; probes
\* are the fee tiers probed so far and quotes what each probe gave; signed
\* says that a transaction was signed, swapFee is the fee tier of swapParams.
v3Idle == [pc |-> "idle", network |-> "", fee |-> 1, probes |-> <<>>,
           quotes |-> <<>>, bestQuote |-> {}, bestFee |-> 0, signed |-> FALSE,
           swapFee |-> 0, result |-> ""]

\* UniswapV3Client.executeSwap up to the fee tier loop: the address tables,
\* then the decimals() call on the token contract.
V3Call(net, decimalsOk) ==
    /\ v3.pc = "idle"
    /\ v3' = [v3 EXCEPT !.network = net,
                        !.pc = IF net \in V3Networks /\ decimalsOk
                               THEN "probe" ELSE "done",
                        !.result = IF net \notin V3Networks THEN "notConfigured"
                                   ELSE IF ~decimalsOk THEN "invalidToken"
                                   ELSE ""]
    /\ UNCHANGED <<coreVars, wsClients, sockets, vd, ps, av, ad>>

\* One iteration of `for (const fee of FEE_TIERS)`: the probe of the tier
\* gives q; a probe that throws is skipped, a positive amountOut replaces
\* bestQuote when it is better.
V3Quote(q) ==
    /\ v3.pc = "probe"
    /\ v3' = [v3 EXCEPT
            !.probes = Append(@, FEE_TIERS[v3.fee]),
            !.quotes = Append(@, q),
            !.bestQuote = IF q.ok /\ q.amountOut # 0
                             /\ BetterQuote(q.amountOut, v3.bestQuote)
                          THEN {q.amountOut} ELSE @,
            !.bestFee = IF q.ok /\ q.amountOut # 0
                           /\ BetterQuote(q.amountOut, v3.bestQuote)
                        THEN FEE_TIERS[v3.fee] ELSE @,
            !.fee = @ + 1,
            !.pc = IF v3.fee = Len(FEE_TIERS) THEN "select" ELSE "probe"]
    /\ UNCHANGED <<coreVars, wsClients, sockets, vd, ps, av, ad>>

\* After the loop: `if (!bestQuote)` returns the no-pool failure; otherwise
\* swapParams is built with bestFee.
V3Select ==
    /\ v3.pc = "select"
    /\ v3' = IF v3.bestQuote = {}
             THEN [v3 EXCEPT !.pc = "done", !.result = "noPool"]
             ELSE [v3 EXCEPT !.pc = "swap", !.swapFee = v3.bestFee]
    /\ UNCHANGED <<coreVars, wsClients, sockets, vd, ps, av, ad>>

\* The rest of executeSwap: estimateGas and getGasPrice (a throw is caught
\* and returned as a failure before anything is signed), signTransaction,
\* sendSignedTransaction.
V3Swap(outcome) ==
    /\ v3.pc = "swap"
    /\ v3' = [v3 EXCEPT !.pc = "done", !.result = outcome,
                        !.signed = outcome # "failedBeforeSend"]
    /\ UNCHANGED <<coreVars, wsClients, sockets, vd, ps, av, ad>>

(* ----------------------------- price service --------------------------- *)

COIN_GECKO_IDS ==
    [ETH |-> "ethereum", BASE |-> "ethereum", BNB |-> "binancecoin",
     SOL |-> "solana"]

CoinIds == {COIN_GECKO_IDS[n] : n \in DOMAIN COIN_GECKO_IDS}

FALLBACK_PRICES == [ETH |-> 2000, BASE |-> 2000, BNB |-> 600, SOL |-> 150]

\* What the request to the price API can give: fetch() throws, the response
\* is not ok, or the JSON body is read and data[coinId]?.usd is undefined
\* ({}) or a number.
FetchOutcomes ==
    {[kind |-> "networkError", usd |-> {}], [kind |-> "httpError", usd |-> {}]}
      \cup [kind : {"ok"}, usd : {{}, {0}, {1900}, {3100}}]

\* A fetch that takes whatever number the body holds as the price.
fetchedPriceUnchecked(o) == IF o.kind = "ok" THEN o.usd ELSE {}

\* fetchPriceFromAPI, the value its promise resolves with, or {} when it
\* rejects: `!response.ok` throws, and so does `!price` (undefined or 0).
fetchedPrice(o) == IF o.kind = "ok" THEN o.usd \ {0} ELSE {}

\* cache is the memoize cache of fetchPriceFromAPI by coinId ({} = no
\* entry); fetched is the outcome of the fetch the call made, if any; result
\* is what getPrice returned (its one exit besides the try block is the
\* return of the catch block).
psIdle == [pc |-> "idle", network |-> "", cache |-> [c \in CoinIds |-> {}],
           fetched |-> {}, result |-> {}]

\* getPrice(network): a cached promise of the coinId is awaited and gives its
\* price at once; otherwise the request to the API is made.
PsGetPrice(net) ==
    /\ ps.pc \in {"idle", "done"}
    /\ ps' = [ps EXCEPT !.network = net, !.fetched = {},
                        !.result = ps.cache[COIN_GECKO_IDS[net]],
                        !.pc = IF ps.cache[COIN_GECKO_IDS[net]] = {}
                               THEN "fetch" ELSE "done"]
    /\ UNCHANGED <<coreVars, wsClients, sockets, vd, v3, av, ad>>

\* The request ends with outcome o.  A resolved promise stays in the cache;
\* a rejected one is removed from it (memoize with promise: true) and the
\* catch of getPrice returns FALLBACK_PRICES[network].
PsFetch(o) ==
    /\ ps.pc = "fetch"
    /\ ps' = [ps EXCEPT
            !.fetched = {o},
            !.cache[COIN_GECKO_IDS[ps.network]] = fetchedPrice(o),
            !.result = IF fetchedPrice(o) = {}
                       THEN {FALLBACK_PRICES[ps.network]} ELSE fetchedPrice(o),
            !.pc = "done"]
    /\ UNCHANGED <<coreVars, wsClients, sockets, vd, v3, av, ad>>

\* maxAge: 30 seconds after it was stored, a cache entry is dropped.
PsExpire(c) ==
    /\ ps.cache[c] # {}
    /\ ps' = [ps EXCEPT !.cache[c] = {}]
    /\ UNCHANGED <<coreVars, wsClients, sockets, vd, v3, av, ad>>

(* ------------------------------ adapters ------------------------------- *)

\* The RetryOptions literal of a call site: an optional field is a set, empty
\* when the literal leaves the field out.
NoOptions == [network |-> {}, maxRetries |-> {}, initialDelayMs |-> {}]

\* `{ network }`, and `{ maxRetries, initialDelayMs }` as the Jupiter adapter
\* writes it.
networkOptions(net) == [NoOptions EXCEPT !.network = {net}]
jupiterOptions(retries, delay) ==
    [NoOptions EXCEPT !.maxRetries = {retries}, !.initialDelayMs = {delay}]

\* A merge that always takes the profile of the network the adapter runs on.
mergeOptionsOfNetwork(options, net) == baseOptions(net)

\* retryWithBackoff's `opts`: baseOptions chosen by options.network, then
\* `{ ...baseOptions, ...options }`.  net is the network the adapter runs on;
\* the code does not look at it.
mergeOptions(options, net) ==
    LET base == IF options.network = {"BASE"} THEN BASE_NETWORK_OPTIONS
                ELSE DEFAULT_OPTIONS
    IN [maxRetries |-> IF options.maxRetries = {} THEN base.maxRetries
                       ELSE CHOOSE x \in options.maxRetries : TRUE,
        initialDelayMs |-> IF options.initialDelayMs = {} THEN base.initialDelayMs
                           ELSE CHOOSE x \in options.initialDelayMs : TRUE,
        maxDelayMs |-> base.maxDelayMs,
        backoffMultiplier |-> base.backoffMultiplier]

\* One awaited remote call of an executeSwap: whether it goes through
\* retryWithBackoff and with which options, and what a throw leads to: the
\* failed outcome ("fail") or the next statement ("skip").
Step(name, wrapped, options, onThrow) ==
    [name |-> name, wrapped |-> wrapped, options |-> options, onThrow |-> onThrow]

\* The remote calls of each adapter's executeSwap, in program order.
AdapterSteps(adapter, net) ==
    IF adapter = "jupiter"
    THEN <<Step("quote", TRUE, jupiterOptions(3, 2000), "fail"),
           Step("swapPost", TRUE, jupiterOptions(3, 2000), "fail"),
           Step("send", TRUE, jupiterOptions(2, 1500), "fail"),
           Step("blockhash", TRUE, jupiterOptions(2, 1000), "fail"),
           Step("confirm", TRUE, jupiterOptions(2, 1000), "fail"),
           Step("mint", FALSE, NoOptions, "skip")>>
    ELSE IF adapter = "uniswapV3"
    THEN <<Step("decimals", TRUE, networkOptions(net), "fail"),
           Step("quote", TRUE, networkOptions(net), "skip"),
           Step("quote", TRUE, networkOptions(net), "skip"),
           Step("quote", TRUE, networkOptions(net), "skip"),
           Step("quote", TRUE, networkOptions(net), "skip"),
           Step("estimateGas", TRUE, networkOptions(net), "fail"),
           Step("gasPrice", TRUE, networkOptions(net), "fail"),
           Step("send", TRUE, networkOptions(net), "fail")>>
    ELSE IF adapter = "uniswapV2"
    THEN <<Step("decimals", TRUE, networkOptions(net), "fail"),
           Step("quote", TRUE, networkOptions(net), "fail"),
           Step("estimateGas", TRUE, networkOptions(net), "fail"),
           Step("gasPrice", TRUE, networkOptions(net), "fail"),
           Step("send", TRUE, networkOptions(net), "fail")>>
    ELSE <<Step("decimals", TRUE, networkOptions("BNB"), "fail"),
           Step("quote", TRUE, networkOptions("BNB"), "fail"),
           Step("estimateGas", TRUE, networkOptions("BNB"), "fail"),
           Step("gasPrice", TRUE, networkOptions("BNB"), "fail"),
           Step("send", TRUE, networkOptions("BNB"), "fail")>>

\* The networks executeEVMTrade and executeSolanaTrade call each adapter on.
AdapterNetworks(adapter) ==
    IF adapter = "jupiter" THEN {"SOL"}
    ELSE IF adapter = "pancakeswap" THEN {"BNB"}
    ELSE {"ETH", "BASE"}

Adapters == {"jupiter", "pancakeswap", "uniswapV2", "uniswapV3"}

\* step is the index of the awaited call, ran lists the calls made so far with
\* the retry profile each one ran under (none when it was not wrapped) and
\* how it ended ("returned", "zero" for an empty quote, "threw"), quoted
\* tells that a positive quote was seen, accepted that the chain took the
\* transaction, txid its hash as the adapter holds it.
adIdle ==
    [pc |-> "idle", adapter |-> "", network |-> "", step |-> 0, ran |-> <<>>,
     quoted |-> FALSE, accepted |-> FALSE, txid |-> {}, result |-> NoResult]

\* The entry of ad.ran for the awaited call.
Ran(a, ended) ==
    LET st == AdapterSteps(a.adapter, a.network)[a.step]
    IN [name |-> st.name, wrapped |-> st.wrapped, ended |-> ended,
        profile |-> IF st.wrapped THEN {mergeOptions(st.options, a.network)} ELSE {}]

\* The adapter goes to the statement after the awaited call: the next remote
\* call, or (V3, after the fee loop without a positive quote) the "no pool"
\* outcome, or after the last call the successful outcome with the hash.
AdAdvance(a, ended) ==
    LET steps == AdapterSteps(a.adapter, a.network)
        b == [a EXCEPT !.ran = Append(@, Ran(a, ended))]
    IN IF a.adapter = "uniswapV3" /\ a.step = 5 /\ ~a.quoted
       THEN [b EXCEPT !.pc = "returned",
                      !.result = Failure("No Uniswap V3 liquidity pool found")]
       ELSE IF a.step = Len(steps)
       THEN [b EXCEPT !.pc = "returned",
                      !.result = [NoResult EXCEPT !.success = TRUE, !.txHash = a.txid]]
       ELSE [b EXCEPT !.step = @ + 1]

\* executeSwap of an adapter is called: the V3 adapter answers at once on a
\* network it has no addresses for, else the first remote call is awaited.
AdCall(adapter, net) ==
    /\ ad.pc = "idle"
    /\ net \in AdapterNetworks(adapter)
    /\ ad' = IF adapter = "uniswapV3" /\ net \notin V3Networks
             THEN [adIdle EXCEPT !.pc = "returned", !.adapter = adapter, !.network = net,
                                 !.result = Failure("Uniswap V3 not configured for network")]
             ELSE [adIdle EXCEPT !.pc = "step", !.adapter = adapter, !.network = net,
                                 !.step = 1]
    /\ UNCHANGED <<coreVars, wsClients, sockets, vd, v3, ps, av>>

\* The awaited call returns.  A quote may be zero or empty: Jupiter and V2
\* answer with a failure, V3 goes to the next fee tier, PancakeSwap goes on.
\* A send that returns is a transaction the chain took: Jupiter holds its
\* signature, the EVM adapters its receipt.
AdStepReturns(zero) ==
    /\ ad.pc = "step"
    /\ LET st == AdapterSteps(ad.adapter, ad.network)[ad.step]
           a == [ad EXCEPT !.quoted = @ \/ (st.name = "quote" /\ ~zero),
                           !.accepted = @ \/ st.name = "send",
                           !.txid = IF st.name = "send" THEN {"0xhash"} ELSE @]
       IN /\ zero => st.name = "quote"
          /\ ad' = IF zero /\ ad.adapter \in {"jupiter", "uniswapV2"}
                   THEN [a EXCEPT !.pc = "returned", !.ran = Append(@, Ran(ad, "zero")),
                                  !.result = Failure("Unable to get swap quote")]
                   ELSE AdAdvance(a, IF zero THEN "zero" ELSE "returned")
    /\ UNCHANGED <<coreVars, wsClients, sockets, vd, v3, ps, av>>

\* The awaited call throws (through retryWithBackoff: after its retries): the
\* catch block answers with a failure that has only an errorMessage, or the
\* adapter goes on where the throw is caught around the call alone.
AdStepThrows ==
    /\ ad.pc = "step"
    /\ LET st == AdapterSteps(ad.adapter, ad.network)[ad.step]
       IN ad' = IF st.onThrow = "skip" THEN AdAdvance(ad, "threw")
                ELSE [ad EXCEPT !.pc = "returned", !.ran = Append(@, Ran(ad, "threw")),
                                !.result = Failure("swap failed")]
    /\ UNCHANGED <<coreVars, wsClients, sockets, vd, v3, ps, av>>

\* web3.eth.sendSignedTransaction broadcasts the transaction and then rejects:
\* the receipt did not come in time, or the transaction was mined and
\* reverted.  The chain has the transaction; the adapter's catch block runs.
AdSendLost ==
    /\ ad.pc = "step"
    /\ ad.adapter # "jupiter"
    /\ AdapterSteps(ad.adapter, ad.network)[ad.step].name = "send"
    /\ ad' = [ad EXCEPT !.pc = "returned", !.ran = Append(@, Ran(ad, "threw")),
                        !.accepted = TRUE, !.result = Failure("swap failed")]
    /\ UNCHANGED <<coreVars, wsClients, sockets, vd, v3, ps, av>>

\* The state of the listeners, the validation, the V3 adapter and the price
\* service when the modules have been loaded.
SideInit ==
    /\ wsClients = [u \in Users |-> {}]
    /\ sockets = [l \in Listeners |-> NoSocket]
    /\ vd = vdIdle
    /\ v3 = v3Idle
    /\ ps = psIdle
    /\ av = avIdle
    /\ ad = adIdle

(* ---------------------------- process start -------------------------- *)

\* The server process ends and starts again with environment e: the modules
\* are loaded anew, so `new BotScheduler()` holds an empty scheduledTasks map,
\* the cron tasks, handlers and ticks of the old process are gone, and the
\* TradingService constructor reads process.env.  The database tables stay
\* as they are; nothing reads them while the modules load or the routes are
\* registered.
ProcessStart(e) ==
    /\ env' = e
    /\ tasks' = <<>>
    /\ scheduledTasks' = [n \in Networks |-> 0]
    /\ trades' = <<>>
    /\ reqs' = <<>>
    /\ ts' = tsIdle
    /\ rt' = rtIdle
    /\ wsClients' = [u \in Users |-> {}]
    /\ sockets' = [l \in Listeners |-> NoSocket]
    /\ ps' = psIdle
    /\ UNCHANGED <<tradeConfigs, tradeLogs, botStatus, faults, vd, v3, av, ad>>

(* --------------------------- specification ----------------------------- *)

\* The state after construction: an empty database, an empty scheduler map.
Init ==
    /\ tradeConfigs = <<>>
    /\ tradeLogs = <<>>
    /\ botStatus = [n \in Networks |-> NoRow]
    /\ tasks = <<>>
    /\ scheduledTasks = [n \in Networks |-> 0]
    /\ trades = <<>>
    /\ reqs = <<>>
    /\ faults = 0
    /\ ts = tsIdle
    /\ env = Networks
    /\ rt = rtIdle
    /\ SideInit

Next ==
    \/ \E n \in Networks : ReqStart(n)
    \/ \E n \in Networks : ReqStop(n)
    \/ \E n \in Networks, a \in BOOLEAN, v \in TradeIntervals, m \in ConfigAmounts :
            ReqSave(n, a, v, m)
    \/ \E n \in Networks, m \in ManualAmounts : ReqManual(n, m)
    \/ \E r \in DOMAIN reqs : StartGetActive(r)
    \/ \E r \in DOMAIN reqs : UpsertGet(r)
    \/ \E r \in DOMAIN reqs : UpsertPut(r)
    \/ \E r \in DOMAIN reqs : StopUpdate(r)
    \/ \E r \in DOMAIN reqs : SaveDeactivate(r)
    \/ \E r \in DOMAIN reqs : SaveInsert(r)
    \/ \E r \in DOMAIN reqs : SaveRestart(r)
    \/ \E r \in DOMAIN reqs : ReqFault(r)
    \/ \E t \in DOMAIN tasks : Fire(t)
    \/ \E i \in DOMAIN trades : TradeCreateLog(i)
    \/ \E i \in DOMAIN trades : TradeExecute(i)
    \/ \E i \in DOMAIN trades : TradeUpdateLog(i)
    \/ \E i \in DOMAIN trades : TradeGetStatus(i)
    \/ \E i \in DOMAIN trades : TradeUpdateStatus(i)
    \/ \E i \in DOMAIN trades : TradeFault(i)
    \/ \E i \in DOMAIN trades : TradeCatch(i)
    \/ \E i \in DOMAIN trades : TradeCatchFault(i)

Spec == Init /\ [][Next]_vars


\* The scheduler commands alone: bot.start, bot.stop and POST /api/configs,
\* with no timer firing and no manual trade.
NextSched ==
    \/ \E n \in Networks : ReqStart(n)
    \/ \E n \in Networks : ReqStop(n)
    \/ \E n \in Networks, a \in BOOLEAN, v \in TradeIntervals, m \in ConfigAmounts :
            ReqSave(n, a, v, m)
    \/ \E r \in DOMAIN reqs : StartGetActive(r)
    \/ \E r \in DOMAIN reqs : UpsertGet(r)
    \/ \E r \in DOMAIN reqs : UpsertPut(r)
    \/ \E r \in DOMAIN reqs : StopUpdate(r)
    \/ \E r \in DOMAIN reqs : SaveDeactivate(r)
    \/ \E r \in DOMAIN reqs : SaveInsert(r)
    \/ \E r \in DOMAIN reqs : SaveRestart(r)
    \/ \E r \in DOMAIN reqs : ReqFault(r)

SpecSched == Init /\ [][NextSched]_vars

\* The scheduler commands over a journal whose calls all return.
NextStart ==
    \/ \E n \in Networks : ReqStart(n)
    \/ \E n \in Networks : ReqStop(n)
    \/ \E n \in Networks, a \in BOOLEAN, v \in TradeIntervals, m \in ConfigAmounts :
            ReqSave(n, a, v, m)
    \/ \E r \in DOMAIN reqs : StartGetActive(r)
    \/ \E r \in DOMAIN reqs : UpsertGet(r)
    \/ \E r \in DOMAIN reqs : UpsertPut(r)
    \/ \E r \in DOMAIN reqs : StopUpdate(r)
    \/ \E r \in DOMAIN reqs : SaveDeactivate(r)
    \/ \E r \in DOMAIN reqs : SaveInsert(r)
    \/ \E r \in DOMAIN reqs : SaveRestart(r)

SpecStart == Init /\ [][NextStart]_vars

\* The scheduler commands called one after the other: a command arrives when
\* the handler of the one before it has ended.
NextSeq ==
    \/ \E n \in Networks : reqs = <<>> /\ ReqStart(n)
    \/ \E n \in Networks : reqs = <<>> /\ ReqStop(n)
    \/ \E n \in Networks, a \in BOOLEAN, v \in TradeIntervals, m \in ConfigAmounts :
            reqs = <<>> /\ ReqSave(n, a, v, m)
    \/ \E r \in DOMAIN reqs : StartGetActive(r)
    \/ \E r \in DOMAIN reqs : UpsertGet(r)
    \/ \E r \in DOMAIN reqs : UpsertPut(r)
    \/ \E r \in DOMAIN reqs : StopUpdate(r)
    \/ \E r \in DOMAIN reqs : SaveDeactivate(r)
    \/ \E r \in DOMAIN reqs : SaveInsert(r)
    \/ \E r \in DOMAIN reqs : SaveRestart(r)
    \/ \E r \in DOMAIN reqs : ReqFault(r)

SpecSeq == Init /\ [][NextSeq]_vars

\* Two bot keys of one user, for what a command on one key does to the other.
TwoNetworks == {"BNB", "ETH"}

InitKeys ==
    /\ tradeConfigs = <<>>
    /\ tradeLogs = <<>>
    /\ botStatus = [n \in TwoNetworks |-> NoRow]
    /\ tasks = <<>>
    /\ scheduledTasks = [n \in TwoNetworks |-> 0]
    /\ trades = <<>>
    /\ reqs = <<>>
    /\ faults = 0
    /\ ts = tsIdle
    /\ env = TwoNetworks
    /\ rt = rtIdle
    /\ SideInit

\* The scheduler commands on the two keys, called one after the other.
NextKeys ==
    \/ \E n \in TwoNetworks : reqs = <<>> /\ ReqStart(n)
    \/ \E n \in TwoNetworks : reqs = <<>> /\ ReqStop(n)
    \/ \E n \in TwoNetworks, a \in BOOLEAN, v \in TradeIntervals, m \in ConfigAmounts :
            reqs = <<>> /\ ReqSave(n, a, v, m)
    \/ \E r \in DOMAIN reqs : StartGetActive(r)
    \/ \E r \in DOMAIN reqs : UpsertGet(r)
    \/ \E r \in DOMAIN reqs : UpsertPut(r)
    \/ \E r \in DOMAIN reqs : StopUpdate(r)
    \/ \E r \in DOMAIN reqs : SaveDeactivate(r)
    \/ \E r \in DOMAIN reqs : SaveInsert(r)
    \/ \E r \in DOMAIN reqs : SaveRestart(r)
    \/ \E r \in DOMAIN reqs : ReqFault(r)

SpecKeys == InitKeys /\ [][NextKeys]_vars

\* The state after one config was saved as active and its bot was started:
\* the row of the key exists with its counters at zero and the timer is live.
InitCountCore ==
    /\ tradeConfigs = <<[network |-> "BNB", isActive |-> TRUE,
                         tradeInterval |-> "5min", tradeAmountUsd |-> 500]>>
    /\ tradeLogs = <<>>
    /\ botStatus = [n \in Networks |->
            [exists |-> TRUE, isRunning |-> TRUE, activeConfigId |-> 1,
             nextTradeAt |-> TRUE, totalTradesCount |-> 0,
             successfulTradesCount |-> 0, failedTradesCount |-> 0,
             totalVolumeUsd |-> 0]]
    /\ tasks = <<[network |-> "BNB", configId |-> 1]>>
    /\ scheduledTasks = [n \in Networks |-> 1]
    /\ trades = <<>>
    /\ reqs = <<>>
    /\ faults = 0
    /\ ts = tsIdle
    /\ env = Networks
    /\ rt = rtIdle

InitCount == InitCountCore /\ SideInit

\* The same state with one listener connected that has sent the auth message
\* of the bot's user.
InitNotify ==
    /\ InitCountCore
    /\ wsClients = [u \in Users |-> IF u = BotUser THEN {1} ELSE {}]
    /\ sockets = [l \in Listeners |->
            IF l = 1 THEN [readyState |-> "OPEN", sent |-> {BotUser}, got |-> {}]
            ELSE NoSocket]
    /\ vd = vdIdle
    /\ v3 = v3Idle
    /\ ps = psIdle
    /\ av = avIdle
    /\ ad = adIdle

\* The ticks of a running bot and the manual trades of its key.
NextCount ==
    \/ \E n \in Networks, m \in ManualAmounts : ReqManual(n, m)
    \/ \E t \in DOMAIN tasks : Fire(t)
    \/ \E i \in DOMAIN trades : TradeCreateLog(i)
    \/ \E i \in DOMAIN trades : TradeExecute(i)
    \/ \E i \in DOMAIN trades : TradeUpdateLog(i)
    \/ \E i \in DOMAIN trades : TradeGetStatus(i)
    \/ \E i \in DOMAIN trades : TradeUpdateStatus(i)
    \/ \E i \in DOMAIN trades : TradeFault(i)
    \/ \E i \in DOMAIN trades : TradeCatch(i)
    \/ \E i \in DOMAIN trades : TradeCatchFault(i)

SpecCount == InitCount /\ [][NextCount]_vars

\* The same steps while a listener of the user is connected.
SpecNotify == InitNotify /\ [][NextCount]_vars

\* The scheduler commands and the ticks of a running bot, over a journal
\* whose calls all return.
NextTick ==
    \/ \E n \in Networks : ReqStart(n)
    \/ \E n \in Networks : ReqStop(n)
    \/ \E n \in Networks, a \in BOOLEAN, v \in TradeIntervals, m \in ConfigAmounts :
            ReqSave(n, a, v, m)
    \/ \E r \in DOMAIN reqs : StartGetActive(r)
    \/ \E r \in DOMAIN reqs : UpsertGet(r)
    \/ \E r \in DOMAIN reqs : UpsertPut(r)
    \/ \E r \in DOMAIN reqs : StopUpdate(r)
    \/ \E r \in DOMAIN reqs : SaveDeactivate(r)
    \/ \E r \in DOMAIN reqs : SaveInsert(r)
    \/ \E r \in DOMAIN reqs : SaveRestart(r)
    \/ \E t \in DOMAIN tasks : Fire(t)
    \/ \E i \in DOMAIN trades : TradeCreateLog(i)
    \/ \E i \in DOMAIN trades : TradeExecute(i)
    \/ \E i \in DOMAIN trades : TradeUpdateLog(i)
    \/ \E i \in DOMAIN trades : TradeGetStatus(i)
    \/ \E i \in DOMAIN trades : TradeUpdateStatus(i)

SpecTick == InitCount /\ [][NextTick]_vars

\* The listeners of the WebSocket server and the broadcasts to them.
NextWs ==
    \/ \E l \in Listeners : WsConnect(l)
    \/ \E l \in Listeners, m \in Messages : WsMessage(l, m)
    \/ \E l \in Listeners : WsClosing(l)
    \/ \E l \in Listeners : WsClose(l)
    \/ \E u \in Users : broadcastToUser(u)

SpecWs == Init /\ [][NextWs]_vars

\* The validation of one request body by either command.
NextValidate ==
    \/ \E f \in SlippageInputs, m \in AmountInputs : VdConfigParse(f, m)
    \/ VdConfigInsert
    \/ \E f \in SlippageInputs, m \in AmountInputs : VdManualParse(f, m)

SpecValidate == Init /\ [][NextValidate]_vars

\* One call of UniswapV3Client.executeSwap.
NextV3 ==
    \/ \E n \in {"ETH", "BASE"}, d \in BOOLEAN : V3Call(n, d)
    \/ \E q \in QuoteOutcomes : V3Quote(q)
    \/ V3Select
    \/ \E o \in {"mined", "failedAfterSend", "failedBeforeSend"} : V3Swap(o)

SpecV3 == Init /\ [][NextV3]_vars

\* Calls of PriceService.getPrice, one after the other.
NextPrice ==
    \/ \E n \in NetworkTypes : PsGetPrice(n)
    \/ \E o \in FetchOutcomes : PsFetch(o)
    \/ \E c \in CoinIds : PsExpire(c)

SpecPrice == Init /\ [][NextPrice]_vars

\* Calls of TradingService.isValidTokenAddress, one after the other.
NextAddress ==
    \/ \E n \in NetworkTypes, a \in AddressInputs : AvTest(n, a)
    \/ AvNext

SpecAddress == Init /\ [][NextAddress]_vars

\* One call of an adapter's executeSwap.
NextAdapter ==
    \/ \E a \in Adapters, n \in NetworkTypes : AdCall(a, n)
    \/ \E z \in BOOLEAN : AdStepReturns(z)
    \/ AdStepThrows
    \/ AdSendLost

SpecAdapter == Init /\ [][NextAdapter]_vars

\* The scheduler commands across restarts of the server process.
NextBoot ==
    \/ \E n \in Networks : ReqStart(n)
    \/ \E n \in Networks : ReqStop(n)
    \/ \E n \in Networks, a \in BOOLEAN, v \in TradeIntervals, m \in ConfigAmounts :
            ReqSave(n, a, v, m)
    \/ \E r \in DOMAIN reqs : StartGetActive(r)
    \/ \E r \in DOMAIN reqs : UpsertGet(r)
    \/ \E r \in DOMAIN reqs : UpsertPut(r)
    \/ \E r \in DOMAIN reqs : StopUpdate(r)
    \/ \E r \in DOMAIN reqs : SaveDeactivate(r)
    \/ \E r \in DOMAIN reqs : SaveInsert(r)
    \/ \E r \in DOMAIN reqs : SaveRestart(r)
    \/ \E r \in DOMAIN reqs : ReqFault(r)
    \/ \E e \in SUBSET Networks : ProcessStart(e)

SpecBoot == Init /\ [][NextBoot]_vars

\* One call of TradingService.executeTrade and the journal write of its outcome.
NextTrade ==
    \/ \E n \in NetworkTypes, v \in DexVersions, c \in BOOLEAN, k \in PrivateKeys,
          a \in AddressShapes, q \in BOOLEAN, m \in TradeAmounts, g \in MaxGasRatios :
            TsCall(n, v, c, k, a, q, m, g)
    \/ \E p \in NativePrices : TsPrice(p)
    \/ \E g \in GasPrices : TsGasPrice(g)
    \/ TsGasPriceFails
    \/ \E p \in NativePrices : TsEstimate(p)
    \/ \E o \in {"mined", "failedAfterSend", "failedBeforeSend", "noPool", "notConfigured"},
          f \in ReceiptFees : TsAdapter(o, f)
    \/ TsJournal

SpecTrade == Init /\ [][NextTrade]_vars

\* One call of retryWithBackoff.
NextRetry ==
    \/ \E n \in NetworkTypes : RtCall(n)
    \/ RtSucceeds
    \/ \E m \in ErrorMessages : RtFails(m)
    \/ RtWakes

SpecRetry == Init /\ [][NextRetry]_vars

(* ------------------------------ claims --------------------------------- *)

Terminal == {"success", "failed"}

\* The trades of a key that are executing, ticks and manual trades alike.
TradesInFlight(net) == {i \in DOMAIN trades : trades[i].network = net}

\* The live (scheduled, not stopped) tasks of a key.
LiveTasks(net) == {t \in DOMAIN tasks : tasks[t].network = net}

\* C1: for every key at most one invocation of the tick handler is executing
\* at any time; a tick that fires while another one of its key executes is
\* skipped.
C1_NoTickOverlap ==
    \A n \in Networks : Cardinality(TicksInFlight(n)) <= 1

\* C2: under any interleaving of createConfig calls, a key has at most one
\* TradeConfig row with isActive = true.
C2_AtMostOneActiveConfig ==
    \A n \in Networks : Cardinality(getActiveConfig(n)) <= 1

\* C3: a TradeLog row is pending until it is written, and a terminal status is
\* written to it at most once: a terminal row is never written again.
C3_TerminalWrittenOnce ==
    \A l \in 1..Len(tradeLogs) :
        /\ tradeLogs[l].writes <= 1
        /\ (tradeLogs[l].writes = 0 <=> tradeLogs[l].status = "pending")

RECURSIVE SumSuccess(_, _)
\* The sum of amountUsd over the first k rows that are of key net and success.
SumSuccess(net, k) ==
    IF k = 0 THEN 0
    ELSE SumSuccess(net, k - 1)
         + (IF tradeLogs[k].network = net /\ tradeLogs[k].status = "success"
            THEN tradeLogs[k].amountUsd ELSE 0)

\* C4: whenever no trade of a key is in flight, the key's
\* BotStatus.totalVolumeUsd is the sum of amountUsd over its success rows.
C4_VolumeIsSumOfSuccess ==
    \A n \in Networks :
        (TradesInFlight(n) = {} /\ botStatus[n].exists)
            => botStatus[n].totalVolumeUsd = SumSuccess(n, Len(tradeLogs))

TerminalLogs(net) ==
    {l \in 1..Len(tradeLogs) :
        tradeLogs[l].network = net /\ tradeLogs[l].status \in Terminal}

\* C5: whenever no trade of a key is in flight, successfulTradesCount +
\* failedTradesCount of the key's BotStatus is the number of its terminal rows.
C5_CountersMatchTerminalLogs ==
    \A n \in Networks :
        (TradesInFlight(n) = {} /\ botStatus[n].exists)
            => botStatus[n].successfulTradesCount + botStatus[n].failedTradesCount
                 = Cardinality(TerminalLogs(n))

\* C6: while a key has no entry in the scheduler map (stopBot has completed
\* and startBot has not run since) no tick of the key starts; and a tick that
\* was executing when stopBot was called and has created its row ends with a
\* terminal status in that row.
C6_StopKeepsRunningTick ==
    [][ /\ \A i \in DOMAIN trades' \ DOMAIN trades :
              trades'[i].tradeType = "automated"
                  => isRunning(trades'[i].network)
        /\ \A i \in DOMAIN trades \ DOMAIN trades' :
              (trades[i].tradeType = "automated" /\ trades[i].seenStop
               /\ trades[i].log # 0)
                  => tradeLogs'[trades[i].log].status \in Terminal
      ]_vars

\* C7: under any interleaving of startBot and stopBot calls, the live tasks of
\* a key are exactly the task stored in the scheduler map for the key: at most
\* one, and none outside the map.
C7_LiveTasksAreTheMap ==
    \A n \in Networks :
        /\ Cardinality(LiveTasks(n)) <= 1
        /\ LiveTasks(n) = (IF isRunning(n) THEN {scheduledTasks[n]} ELSE {})

\* A config save has just restarted a running bot: the prior task was stopped
\* and the new one is the entry of the map.
C7_Witness ==
    \E r \in DOMAIN reqs :
        /\ reqs[r].restart /\ reqs[r].pc = "upsertGet"
        /\ LiveTasks(reqs[r].network) = {scheduledTasks[reqs[r].network]}
        /\ tasks[scheduledTasks[reqs[r].network]].configId = reqs[r].configId

\* C8: a save of an active config B (with a known interval) that found the bot
\* of its key running, and whose handler ran to its answer, ends with exactly
\* one live timer for the key, that timer trading with B, and
\* BotStatus.activeConfigId = B with isRunning = true.
C8_SaveRestartsWithNewConfig ==
    [][ \A r \in DOMAIN reqs :
          (reqs[r].kind = "save" /\ reqs[r].restart /\ UpsertAccepted(r) /\ UpsertPut(r))
            => LET n == reqs[r].network
                   b == reqs[r].configId
                   live == {t \in DOMAIN tasks' : tasks'[t].network = n}
               IN /\ Cardinality(live) = 1
                  /\ \A t \in live : tasks'[t].configId = b
                  /\ live = {scheduledTasks'[n]}
                  /\ botStatus'[n].exists
                  /\ botStatus'[n].activeConfigId = b
                  /\ botStatus'[n].isRunning
      ]_vars

\* C9: on an EVM network, when the pre-check's gasFeeUsd / amountUsd is
\* strictly greater than maxGasRatio the call returns the failed outcome with
\* the computed gasFee and gasFeeUsd, no adapter was invoked, nothing was
\* submitted, and neither the outcome nor the journaled row has a txHash; a
\* ratio equal to (or below) maxGasRatio is not rejected by the pre-check.
C9_GasTooHighRejects ==
    (ts.gasChecked /\ ts.pc \in {"adapter", "returned", "logged"})
      => IF ts.gasFeeUsd > ts.maxGasRatio * ts.amountUsd
         THEN /\ ts.pc # "adapter"
              /\ ~ts.result.success
              /\ ts.result.errorMessage = {"Gas fee exceeds ratio"}
              /\ ts.result.gasFee = {gasFeeFixed(ts.gasFeeUsd, ts.price)}
              /\ ts.result.gasFeeUsd = {gasFeeUsdFixed(ts.gasFeeUsd)}
              /\ ts.result.txHash = {}
              /\ ts.calls = <<>>
              /\ ~ts.submitted
              /\ ts.pc = "logged"
                   => /\ ts.log.status = "failed"
                      /\ ts.log.txHash = {}
                      /\ ts.log.gasFee = ts.result.gasFee
                      /\ ts.log.gasFeeUsd = ts.result.gasFeeUsd
         ELSE /\ ts.result.errorMessage # {"Gas fee exceeds ratio"}
              /\ ts.log.errorMessage # {"Gas fee exceeds ratio"}

\* A trade whose gas ratio was too high has been rejected and journaled.
C9_Witness ==
    /\ ts.pc = "logged"
    /\ ts.gasChecked
    /\ ts.gasFeeUsd > ts.maxGasRatio * ts.amountUsd
    /\ ts.log.status = "failed"
    /\ ts.log.errorMessage = {"Gas fee exceeds ratio"}

\* C10: a tick that has created its row never ends leaving the row pending,
\* and a tick that ends through its catch block leaves the row failed.
C10_TickLogBecomesFailed ==
    [][ \A i \in DOMAIN trades \ DOMAIN trades' :
          (trades[i].tradeType = "automated" /\ trades[i].log # 0)
            => /\ tradeLogs'[trades[i].log].status # "pending"
               /\ trades[i].pc = "catch"
                    => tradeLogs'[trades[i].log].status = "failed"
      ]_vars

\* C11: the tick handler never propagates a failure to its timer: whatever
\* journal call throws, no invocation of BotScheduler.executeTrade ends by
\* rejecting (a throw outside its try block, or a throw of its catch block).
C11_TickNeverRejects ==
    [][ \A i \in DOMAIN trades :
          trades[i].tradeType = "automated"
            => /\ ~(TradeFault(i) /\ ~CaughtByTick(trades[i].tradeType, trades[i].pc))
               /\ ~TradeCatchFault(i)
      ]_vars

\* The call of ts has ended: executeTrade returned its outcome.
TsEnded == ts.pc \in {"returned", "logged"}

\* The gas pre-check of ts ran and let the trade pass.
TsGasPassed ==
    ts.gasChecked /\ ~(ts.gasFeeUsd > ts.maxGasRatio * ts.amountUsd)

\* C12: TradingService.executeTrade never throws: an exception raised inside
\* the call ends as a returned outcome, and every outcome that is not a
\* success (a mined swap) has success = false and a non-empty errorMessage.
C12_FailuresAreOutcomes ==
    /\ ts.raised => TsEnded /\ ~ts.result.success
    /\ TsEnded =>
          /\ ts.result.success => ts.submitted /\ ts.result.txHash # {}
          /\ ~ts.result.success => ts.result.errorMessage # {}

\* An exception was raised inside a call (a malformed private key) and the
\* call returned a failed outcome, which was journaled.
C12_Witness ==
    /\ ts.pc = "logged" /\ ts.raised
    /\ ts.log.status = "failed" /\ ts.log.errorMessage # {}

\* C15: on ETH and BASE in auto mode (or without dexVersion), after a passed
\* gas pre-check, V3 is tried first; V2 is invoked exactly when V3 found no
\* pool: whenever no V3 fee tier quotes the token (and V3 did not fail for
\* another reason) V2 is invoked and its result returned, and every other V3
\* outcome is returned as it is.
C15_AutoFallsBackToV2 ==
    (ts.network \in {"ETH", "BASE"} /\ ts.dexVersion \in {"auto", "none"}
     /\ TsEnded /\ TsGasPassed)
      => /\ ts.calls # <<>> /\ ts.calls[1] = "uniswapV3"
         /\ (~ts.v3Quote /\ ts.v3Outcome # "failedBeforeSend")
              => ts.calls = <<"uniswapV3", "uniswapV2">>
         /\ (ts.v3Quote \/ ts.v3Outcome = "failedBeforeSend")
              => ts.calls = <<"uniswapV3">>

\* C16: on ETH and BASE a selected version never invokes another adapter:
\* v2 runs V2 only, v3 runs V3 only and returns its failure without a
\* fallback, v4 invokes nothing and returns a failed outcome.
C16_SelectedVersionOnly ==
    (ts.network \in {"ETH", "BASE"} /\ TsEnded /\ TsGasPassed)
      => /\ ts.dexVersion = "v2" => ts.calls = <<"uniswapV2">>
         /\ ts.dexVersion = "v3"
              => /\ ts.calls = <<"uniswapV3">>
                 /\ ts.v3Outcome # "mined"
                      => ~ts.result.success /\ ts.result.errorMessage # {}
                 /\ ts.v3Outcome = "noPool"
                      => ts.result.errorMessage = {"No Uniswap V3 liquidity pool found"}
         /\ ts.dexVersion = "v4"
              => /\ ts.calls = <<>> /\ ~ts.submitted
                 /\ ~ts.result.success
                 /\ ts.result.errorMessage = {"Uniswap V4 under development"}

\* v3 was selected, the V3 adapter found no pool, and that failure was
\* returned and journaled.
C16_Witness ==
    /\ ts.pc = "logged" /\ ts.dexVersion = "v3" /\ ts.v3Outcome = "noPool"
    /\ ts.calls = <<"uniswapV3">> /\ ts.log.status = "failed"

\* The network of ts is available and its token address has the shape of the
\* network's address family.
TsValid ==
    /\ ts.rpc /\ ts.key # "unset"
    /\ ts.address = (IF ts.network = "SOL" THEN "base58" ELSE "0xhex40")

\* C17: an adapter is invoked only for an available network and a valid
\* token address; when either check fails the outcome is failed and neither
\* the price oracle, nor the gas estimate, nor an adapter was called.
C17_ValidatedBeforeAnyCall ==
    /\ (ts.calls # <<>> \/ ts.pc = "adapter") => TsValid
    /\ (ts.pc # "idle" /\ ~TsValid)
          => /\ TsEnded /\ ~ts.result.success /\ ts.result.errorMessage # {}
             /\ ts.oracle = 0 /\ ts.gasCalls = 0
             /\ ts.calls = <<>> /\ ~ts.submitted

\* A call for a network whose RPC client is missing (the key is set) was
\* refused and journaled.
C17_Witness ==
    /\ ts.pc = "logged" /\ ~ts.rpc /\ ts.key = "valid"
    /\ ts.log.status = "failed" /\ ts.calls = <<>>

\* The messages of ErrorMessages that contain a retryable pattern when case
\* is ignored: "HTTP 429" (429), "Rate Limit" (rate limit), "etimedout"
\* (ETIMEDOUT); "reverted" contains none.
RetryableMessages ==
    {<<"H", "T", "T", "P", " ", "4", "2", "9">>,
     <<"R", "a", "t", "e", " ", "L", "i", "m", "i", "t">>,
     <<"e", "t", "i", "m", "e", "d", "o", "u", "t">>}

\* C13: with the default profile (maxRetries 3), when the first k attempts
\* fail with retryable errors and attempt k + 1 succeeds, the call returns,
\* for k from 0 to 3; when 4 attempts fail the operation was invoked exactly 4
\* times and the error thrown is the error of the 4th attempt.
C13_RetriesThenLastError ==
    (rt.pc # "idle" /\ rt.opts = DEFAULT_OPTIONS
     /\ \A i \in 1..Len(rt.errors) : rt.errors[i] \in RetryableMessages)
      => /\ rt.invocations <= 4
         /\ Len(rt.errors) <= 3 => rt.pc # "thrown"
         /\ rt.pc = "returned" => rt.invocations = Len(rt.errors) + 1
         /\ rt.pc = "thrown"
              => /\ Len(rt.errors) = 4 /\ rt.invocations = 4
                 /\ rt.thrown = {rt.errors[4]}

\* Three attempts failed with retryable errors and the 4th succeeded.
C13_Witness ==
    /\ rt.pc = "returned" /\ rt.opts = DEFAULT_OPTIONS
    /\ Len(rt.errors) = 3 /\ rt.invocations = 4
    /\ \A i \in 1..3 : rt.errors[i] \in RetryableMessages

\* C14: an attempt that fails with an error containing no retryable pattern
\* ends the call at once with that error: the operation is not invoked again
\* and no backoff sleep follows, however many retries remain.
C14_NonRetryablePropagatesAtOnce ==
    \A i \in 1..Len(rt.errors) :
        rt.errors[i] \notin RetryableMessages
          => /\ i = Len(rt.errors)
             /\ rt.pc = "thrown" /\ rt.thrown = {rt.errors[i]}
             /\ rt.invocations = i /\ rt.sleeps = i - 1

\* On BASE (5 retries) the second attempt failed with "reverted" and the call
\* threw it with 4 retries left.
C14_Witness ==
    /\ rt.pc = "thrown" /\ rt.network = "BASE"
    /\ Len(rt.errors) = 2 /\ rt.thrown = {rt.errors[2]}
    /\ rt.errors[2] \notin RetryableMessages

\* The BotStatus rows that say the bot runs.
RowsRunning == {n \in Networks : botStatus[n].exists /\ botStatus[n].isRunning}

\* The start requests that wait for getActiveConfig while no config of their
\* network is active.
StartsWithoutConfig ==
    {r \in DOMAIN reqs : /\ reqs[r].kind = "start"
                         /\ reqs[r].pc = "getActive"
                         /\ getActiveConfig(reqs[r].network) = {}}

\* C18: a bot.start request for a network that has no RPC URL or no private
\* key configured installs no timer and does not set BotStatus.isRunning: no
\* step of such a request changes the scheduler map, the live tasks or the
\* BotStatus rows.
C18_UnavailableNetworkNotStarted ==
    [][ \A r \in DOMAIN reqs :
            (/\ reqs[r].kind = "start"
             /\ reqs[r].network \notin env
             /\ (StartGetActive(r) \/ UpsertGet(r) \/ UpsertPut(r)))
            => /\ r \notin DOMAIN reqs'
               /\ UNCHANGED <<scheduledTasks, tasks, botStatus>> ]_vars

\* C19: a bot.start request for a network with no active TradeConfig is
\* rejected at once, and the step that rejects it leaves the scheduler map,
\* the live tasks and the BotStatus rows as they were.
C19_NoActiveConfigChangesNothing ==
    [][ \A r \in StartsWithoutConfig :
            StartGetActive(r)
            => /\ r \notin DOMAIN reqs'
               /\ UNCHANGED <<scheduledTasks, tasks, botStatus>> ]_vars

\* C19 witness: a bot.start request waits for getActiveConfig while no config
\* of its network is active, a bot of that key is in the scheduler map and
\* its BotStatus row exists.
C19_Witness ==
    \E r \in StartsWithoutConfig :
        /\ isRunning(reqs[r].network)
        /\ botStatus[reqs[r].network].exists

\* C20: after a process start BotStatus.isRunning is true exactly for the
\* keys present in the scheduler map.
C20_StartupReconciles ==
    [][ (\E e \in SUBSET Networks : ProcessStart(e))
        => RowsRunning' = {n \in Networks : isRunning(n)}' ]_vars

\* What startBot(userId, cfg) leaves behind, as far as the scheduler map, the
\* live timers and the BotStatus fields isRunning and activeConfigId show.
StartedWith(net, cfg) ==
    /\ isRunning(net)
    /\ LiveTasks(net) = {scheduledTasks[net]}
    /\ tasks[scheduledTasks[net]].configId = cfg
    /\ botStatus[net].exists
    /\ botStatus[net].isRunning
    /\ botStatus[net].activeConfigId = cfg

\* C21: startBot is idempotent: whatever the state it is called in, also the
\* state an earlier startBot(u, cfg) left, a startBot(u, cfg) that returns
\* leaves the key in the scheduler map with one live timer of cfg and
\* BotStatus.isRunning = true, activeConfigId = cfg.
C21_StartBotIdempotent ==
    [][ \A r \in DOMAIN reqs, n \in Networks, c \in DOMAIN tradeConfigs :
            (UpsertPut(r) /\ reqs[r].network = n /\ reqs[r].configId = c)
            => StartedWith(n, c)' ]_vars

\* C21 witness: a second startBot(u, cfg) is at its BotStatus write in the
\* state a first startBot(u, cfg) left behind.
C21_Witness ==
    \E r \in DOMAIN reqs :
        /\ reqs[r].kind = "start"
        /\ reqs[r].pc = "upsertPut"
        /\ reqs[r].existing
        /\ StartedWith(reqs[r].network, reqs[r].configId)

\* What the stop command leaves behind on a key: no scheduler entry, no live
\* timer, and a BotStatus row (if the key has one) with isRunning = false and
\* nextTradeAt = null.
StoppedKey(net) ==
    /\ ~isRunning(net)
    /\ LiveTasks(net) = {}
    /\ botStatus[net].exists =>
            (~botStatus[net].isRunning /\ ~botStatus[net].nextTradeAt)

\* The scheduler entry, the live timers and the BotStatus row of a key.
KeyState(net) ==
    [entry |-> scheduledTasks[net],
     timers |-> {t \in DOMAIN tasks : tasks[t].network = net},
     row |-> botStatus[net]]

\* C22: stopping is idempotent.  The stop command on a key with no scheduler
\* entry leaves the scheduler map and the timers as they are; no stop command
\* changes another key's entry, timers or BotStatus row; a stop that returns
\* leaves the key stopped, and a stop on a key an earlier stop left stopped
\* changes neither the scheduler map nor BotStatus.
C22_StopIdempotent ==
    [][ \A n \in DOMAIN scheduledTasks :
          /\ (ReqStop(n) /\ ~isRunning(n))
                => UNCHANGED <<scheduledTasks, tasks, botStatus>>
          /\ \A r \in DOMAIN reqs :
                (StopUpdate(r) /\ reqs[r].network = n)
                => /\ StoppedKey(n)'
                   /\ StoppedKey(n) => UNCHANGED <<scheduledTasks, tasks, botStatus>>
          /\ (ReqStop(n) \/ \E r \in DOMAIN reqs :
                                StopUpdate(r) /\ reqs[r].network = n)
                => \A k \in DOMAIN scheduledTasks \ {n} :
                        KeyState(k)' = KeyState(k) ]_vars

\* C22 witness: a second stop is at its BotStatus write on a key the first
\* stop left stopped, while the bot of another key runs.
C22_Witness ==
    \E r \in DOMAIN reqs :
        /\ reqs[r].kind = "stop"
        /\ reqs[r].pc = "stopUpdate"
        /\ botStatus[reqs[r].network].exists
        /\ StoppedKey(reqs[r].network)
        /\ \E k \in DOMAIN scheduledTasks \ {reqs[r].network} :
                isRunning(k) /\ botStatus[k].exists /\ botStatus[k].isRunning

\* The counter columns of a BotStatus row.
Counters == {"totalTradesCount", "successfulTradesCount", "failedTradesCount",
             "totalVolumeUsd"}

\* C23: the BotStatus counters of a key never decrease from one state to the
\* next.
C23_CountersNeverDecrease ==
    [][ \A n \in Networks :
            (botStatus[n].exists /\ botStatus'[n].exists)
            => \A f \in Counters : botStatus'[n][f] >= botStatus[n][f] ]_vars

\* C24: in every BotStatus row successfulTradesCount + failedTradesCount is
\* at most totalTradesCount.
C24_OutcomesWithinTotal ==
    \A n \in Networks :
        botStatus[n].exists
        => botStatus[n].successfulTradesCount + botStatus[n].failedTradesCount
              <= botStatus[n].totalTradesCount

\* C24 witness: a tick and a manual trade of the key have both ended without
\* a journal call failing, their writes of the counters interleaved (two
\* terminal logs, one trade counted).
C24_Witness ==
    \E n \in Networks :
        /\ trades = <<>> /\ faults = 0
        /\ botStatus[n].exists
        /\ botStatus[n].totalTradesCount = 1
        /\ \E a, b \in DOMAIN tradeLogs :
              /\ tradeLogs[a].network = n /\ tradeLogs[b].network = n
              /\ tradeLogs[a].tradeType = "automated"
              /\ tradeLogs[b].tradeType = "manual"
              /\ tradeLogs[a].status \in Terminal
              /\ tradeLogs[b].status \in Terminal

\* C25: a broadcast for user U is sent to a listener only if the listener
\* sent an auth message naming U before and its transport is open when the
\* broadcast is made (so a listener that never authenticated receives
\* nothing), and a listener that has closed is in no user's listener set.
C25_OnlyAuthenticatedOpenListeners ==
    [][ \A l \in Listeners :
          /\ \A u \in sockets'[l].got \ sockets[l].got :
                /\ u \in sockets[l].sent
                /\ sockets[l].readyState = "OPEN"
          /\ sockets[l].sent = {} => sockets'[l].got = {}
          /\ sockets'[l].readyState = "CLOSED"
                => \A u \in Users : l \notin wsClients'[u] ]_vars

\* C25 witness: a broadcast for a user reached one of its listeners, while
\* another listener registered for the same user has a transport that is
\* going down and received nothing, and a listener has closed.
C25_Witness ==
    \E l, k \in Listeners, u \in Users :
        /\ u \in sockets[l].got
        /\ k # l
        /\ u \in sockets[k].sent
        /\ sockets[k].got = {}
        /\ sockets[l].readyState = "CLOSED"
        /\ sockets[k].readyState = "CLOSING"
        /\ k \in wsClients[u]

\* The requests that are about to call startBot for key net with a config
\* whose tradeInterval has no cron expression.
CallsStartBotInvalid(net) ==
    {r \in DOMAIN reqs :
        /\ reqs[r].network = net
        /\ \/ /\ reqs[r].pc = "getActive"
              /\ getActiveConfig(net) # {}
              /\ \A c \in getActiveConfig(net) :
                    tradeConfigs[c].tradeInterval \notin intervalMap
           \/ /\ reqs[r].pc = "afterStop"
              /\ reqs[r].isActive
              /\ reqs[r].tradeInterval \notin intervalMap}

\* C26: startBot with a tradeInterval outside 1min, 5min, 10min, 30min,
\* 1hour throws: the handler that called it ends there, the key has no timer
\* and no scheduler entry afterwards, and no BotStatus row is written.
C26_InvalidIntervalRejected ==
    [][ \A n \in Networks : \A r \in CallsStartBotInvalid(n) :
            (StartGetActive(r) \/ SaveRestart(r))
            => /\ r \notin DOMAIN reqs'
               /\ ~isRunning(n)'
               /\ LiveTasks(n)' = {}
               /\ botStatus' = botStatus ]_vars

\* C26 witness: a bot.start request is about to call startBot with the one
\* active config of its key, whose interval is unknown, on a key that has a
\* BotStatus row.
C26_Witness ==
    \E n \in Networks : \E r \in CallsStartBotInvalid(n) :
        reqs[r].kind = "start" /\ botStatus[n].exists

\* A body whose other fields the command accepts, with the slippage given in
\* the form the command's page sends it: a string for a config, a number for
\* a manual trade.
VdWellFormed ==
    IF vd.command = "config"
    THEN vd.slippageTolerance.kind = "string" /\ insertAmountAccepts(vd.amountUsd)
    ELSE vd.slippageTolerance.kind = "number" /\ manualAmountAccepts(vd.amountUsd)

\* C27: both commands accept slippageTolerance 0.1 and 50 and reject 0 and
\* 50.0001, and no TradeConfig is persisted with a slippageTolerance outside
\* (0, 50].
C27_SlippageBounds ==
    vd.pc = "done"
    => /\ (VdWellFormed /\ vd.slippageTolerance.v \in {1000, 500000})
            => vd.accepted
       /\ (vd.slippageTolerance.kind # "absent"
             /\ vd.slippageTolerance.v \in {0, 500001})
            => ~vd.accepted
       /\ \A v \in vd.persisted : v > 0 /\ v <= 500000

\* The probes so far that returned a positive amountOut.
PositiveProbes ==
    {i \in 1..Len(v3.quotes) : v3.quotes[i].ok /\ v3.quotes[i].amountOut > 0}

\* The earliest probe among those with the largest positive amountOut.
BestProbe ==
    CHOOSE i \in PositiveProbes :
        \A j \in PositiveProbes :
            \/ v3.quotes[j].amountOut < v3.quotes[i].amountOut
            \/ v3.quotes[j].amountOut = v3.quotes[i].amountOut /\ i <= j

\* C28: the V3 adapter probes the fee tiers 100, 500, 3000, 10000 in that
\* order; nothing is signed before all four were probed; the swap uses the
\* tier with the strictly largest quoted amountOut, the earliest one on a
\* tie, ignoring tiers whose probe failed or returned zero; with no positive
\* quote the result is the no-pool failure and nothing is signed.
C28_BestFeeTier ==
    /\ \A i \in 1..Len(v3.probes) : v3.probes[i] = FEE_TIERS[i]
    /\ v3.pc \in {"select", "swap"} \/ v3.result \in {"noPool", "mined",
                         "failedAfterSend", "failedBeforeSend"}
          => v3.probes = FEE_TIERS
    /\ v3.signed => v3.pc = "done" /\ v3.probes = FEE_TIERS
    /\ (v3.probes = FEE_TIERS /\ v3.pc \in {"swap", "done"})
          => IF PositiveProbes = {}
             THEN v3.result = "noPool" /\ ~v3.signed
             ELSE /\ v3.result # "noPool"
                  /\ v3.swapFee = FEE_TIERS[BestProbe]

\* C28 witness: a swap was signed with the earlier of two tiers that quoted
\* the same largest amount, after a probe that failed and one that returned
\* zero.
C28_Witness ==
    /\ v3.signed
    /\ \E i, j, k, l \in 1..Len(v3.quotes) :
          /\ ~v3.quotes[i].ok
          /\ v3.quotes[j].ok /\ v3.quotes[j].amountOut = 0
          /\ k < l
          /\ v3.quotes[k].ok /\ v3.quotes[l].ok
          /\ v3.quotes[k].amountOut = v3.quotes[l].amountOut
          /\ v3.quotes[k].amountOut > 0
          /\ v3.swapFee = FEE_TIERS[k]

\* The fetch of the getPrice call failed: network error, HTTP error, or a
\* body without a price.
PsFetchFailed ==
    \E o \in ps.fetched : o.kind # "ok" \/ o.usd \subseteq {0}

\* C29: getPrice never throws, every call ends by returning a price; when
\* the fetch fails it returns the static fallback of the network (ETH and
\* BASE 2000, BNB 600, SOL 150), and a failed fetch leaves no entry in the
\* cache.
C29_FallbackNeverThrows ==
    /\ ps.pc = "done" => \E v \in ps.result : v > 0 /\ ps.result = {v}
    /\ (ps.pc = "done" /\ PsFetchFailed)
          => /\ ps.result = {IF ps.network \in {"ETH", "BASE"} THEN 2000
                              ELSE IF ps.network = "BNB" THEN 600 ELSE 150}
             /\ ps.cache[COIN_GECKO_IDS[ps.network]] = {}
    /\ \A c \in CoinIds : \A v \in ps.cache[c] : v \in {1900, 3100}

\* C29 witness: a getPrice call for BASE returned the fallback after the API
\* answered with a body that holds no usable price, while the price of
\* another coin is cached.
C29_Witness ==
    /\ ps.pc = "done"
    /\ ps.network = "BASE"
    /\ \E o \in ps.fetched : o.kind = "ok" /\ o.usd = {0}
    /\ ps.result = {2000}
    /\ ps.cache["solana"] # {}

\* C30: when createConfig(X) with isActive = true returns, getActiveConfig of
\* X's key returns the row created for X and every row of the key that was
\* active before is inactive: the rows the query matches are X alone.
C30_CreatedConfigIsTheActiveOne ==
    [][ \A r \in DOMAIN reqs : \A n \in Networks :
            (SaveInsert(r) /\ reqs[r].isActive /\ reqs[r].network = n)
            => getActiveConfig(n)' = {Len(tradeConfigs) + 1} ]_vars

\* C31: isValidTokenAddress accepts on an EVM network exactly the strings
\* "0x" followed by 40 hex digits (39 and 41 digits are rejected) and on SOL
\* exactly the strings of 32 to 44 base58 characters (31 and 45 characters
\* are rejected, and so is a string that holds 0, O, I or l).
C31_AddressValidation ==
    av.pc = "returned" =>
        LET s == av.address IN
        IF av.network = "SOL"
        THEN /\ av.valid <=> /\ Len(s) >= 32 /\ Len(s) <= 44
                             /\ \A i \in 1..Len(s) : s[i] \in Base58Alphabet
             /\ Len(s) \in {31, 45} => ~av.valid
             /\ (\E i \in 1..Len(s) : s[i] \in {"0", "O", "I", "l"}) => ~av.valid
        ELSE /\ av.valid <=> /\ Len(s) = 42
                             /\ s[1] = "0" /\ s[2] = "x"
                             /\ \A i \in 3..42 : s[i] \in HexDigits
             /\ Len(s) \in {41, 43} => ~av.valid

\* 0x and 40 hex digits were accepted on an EVM network.
C31_Witness ==
    /\ av.pc = "returned" /\ av.network = "BASE" /\ av.valid
    /\ Len(av.address) = 42

\* C32: whenever no scheduler command is in progress, the BotStatus row of a
\* key says isRunning exactly when the scheduler map holds a timer for the
\* key.
C32_StatusMatchesMap ==
    reqs = <<>> =>
        \A n \in Networks :
            (botStatus[n].exists /\ botStatus[n].isRunning) <=> isRunning(n)

\* C33: an executeSwap during which the chain took a transaction (the EVM
\* sendSignedTransaction or the Solana sendRawTransaction was accepted)
\* returns an outcome that carries the transaction's hash, also when the
\* wait for the receipt or the confirmation fails afterwards.
C33_SubmittedCarriesTxHash ==
    (ad.pc = "returned" /\ ad.accepted) => ad.result.txHash # {}

\* C34: an EVM trade reaches an adapter only when the gas pre-check computed
\* gasFeeUsd / amountUsd <= maxGasRatio from a gas price that was fetched;
\* without a web3 instance, or when the gas price cannot be fetched, no
\* adapter is invoked.
C34_DispatchOnlyAfterGasCheck ==
    (ts.network # "SOL" /\ (ts.pc = "adapter" \/ ts.calls # <<>>))
      => /\ ts.rpc
         /\ ts.gasChecked
         /\ ts.gasPrice \in GasPrices
         /\ ~GasTooHigh(ts.gasFeeUsd, ts.amountUsd, ts.maxGasRatio)

\* C35: one executeTrade call hands at most one transaction to the chain: the
\* V2 adapter is invoked after the V3 adapter only in auto mode and only when
\* V3 found no pool, which it answers before it signs or sends anything.
C35_AtMostOneSubmission ==
    /\ ts.sent <= 1
    /\ Len(ts.calls) <= 2
    /\ (ts.adapter = "uniswapV2" /\ ts.calls # <<>> /\ ts.calls[1] = "uniswapV3")
         => /\ isAutoMode(ts.dexVersion)
            /\ ts.v3Outcome = "noPool"
            /\ ts.pc = "adapter" => ts.sent = 0 /\ ~ts.submitted

\* In auto mode V3 found no pool and the V2 adapter submitted the swap.
C35_Witness ==
    /\ ts.pc = "logged" /\ ts.calls = <<"uniswapV3", "uniswapV2">>
    /\ ts.sent = 1 /\ ts.log.status = "success"

\* C36: a tick trades with the config that is the active config of its key:
\* once a save has made another config the active one, no tick of the key
\* fires with, or starts its trade with, the config that is now inactive.
C36_TickTradesWithActiveConfig ==
    [][ /\ \A t \in DOMAIN tasks :
              (Fire(t) /\ getActiveConfig(tasks[t].network) # {})
                  => tasks[t].configId \in getActiveConfig(tasks[t].network)
        /\ \A i \in DOMAIN trades :
              (TradeCreateLog(i) /\ trades[i].tradeType = "automated"
               /\ getActiveConfig(trades[i].network) # {})
                  => trades[i].configId \in getActiveConfig(trades[i].network)
      ]_vars

\* C37: every remote call an adapter makes goes through retryWithBackoff with
\* the retry profile of the network the adapter runs on: 5 retries, 2500 ms,
\* 20000 ms, multiplier 2.5 on BASE; 3 retries, 1000 ms, 10000 ms,
\* multiplier 2 on ETH, BNB and SOL.
C37_EveryStepUsesNetworkProfile ==
    LET profile ==
            IF ad.network = "BASE"
            THEN [maxRetries |-> 5, initialDelayMs |-> 2500, maxDelayMs |-> 20000,
                  backoffMultiplier |-> 25]
            ELSE [maxRetries |-> 3, initialDelayMs |-> 1000, maxDelayMs |-> 10000,
                  backoffMultiplier |-> 20]
    IN \A k \in 1..Len(ad.ran) :
          ad.ran[k].wrapped /\ ad.ran[k].profile = {profile}

\* The sleeps of each profile as the documentation lists them.
DefaultSleeps == <<1000, 2000, 4000>>
BaseSleeps == <<2500, 6250, 15625, 20000, 20000>>

\* b to the power k.
RECURSIVE Pow(_, _)
Pow(b, k) == IF k = 0 THEN 1 ELSE b * Pow(b, k - 1)

\* C38: the sleep before retry k is min(initialDelay * multiplier^(k-1),
\* maxDelay): 1000, 2000, 4000 ms under the default profile and 2500, 6250,
\* 15625, 20000, 20000 ms on BASE, never above maxDelay, and the operation is
\* invoked at most maxRetries + 1 times.
C38_BackoffDelays ==
    /\ rt.invocations <= rt.opts.maxRetries + 1
    /\ rt.sleeps <= rt.opts.maxRetries
    /\ rt.pc = "sleep" =>
          LET k == rt.sleeps
              grown == (rt.opts.initialDelayMs * Pow(rt.opts.backoffMultiplier, k - 1))
                          \div Pow(10, k - 1)
          IN /\ rt.delayMs = IF grown < rt.opts.maxDelayMs THEN grown
                             ELSE rt.opts.maxDelayMs
             /\ rt.delayMs <= rt.opts.maxDelayMs
             /\ rt.delayMs = IF rt.network = "BASE" THEN BaseSleeps[k]
                             ELSE DefaultSleeps[k]

\* On BASE the fifth sleep, of 20000 ms, has begun after five failed attempts.
C38_Witness ==
    /\ rt.pc = "sleep" /\ rt.network = "BASE"
    /\ rt.sleeps = 5 /\ rt.delayMs = 20000 /\ rt.invocations = 5

\* C39: once a tick has ended and left its row in a terminal status, the
\* open listeners of the user have been sent its broadcasts (new_trade and
\* bot_status), and nothing is broadcast to a listener before the terminal
\* status of a row was written.
C39_TerminalTickBroadcasts ==
    /\ (\E l \in 1..Len(tradeLogs) :
            /\ tradeLogs[l].tradeType = "automated"
            /\ tradeLogs[l].status \in Terminal
            /\ \A i \in DOMAIN trades : trades[i].log # l)
          => \A k \in Recipients(BotUser) : BotUser \in sockets[k].got
    /\ (\E k \in Listeners : sockets[k].got # {})
          => \E l \in 1..Len(tradeLogs) :
                tradeLogs[l].status \in Terminal /\ tradeLogs[l].writes >= 1

\* C40: whenever the BotStatus row of a key says isRunning = false and no
\* command of the key is in progress, its nextTradeAt is null; a tick that
\* was executing when the bot was stopped does not set it when it finishes.
C40_StoppedHasNoNextTrade ==
    \A n \in Networks :
        (botStatus[n].exists /\ ~botStatus[n].isRunning
         /\ \A r \in DOMAIN reqs : reqs[r].network # n)
          => ~botStatus[n].nextTradeAt

====
